---- MODULE Spec2Model ----
(***************************************************************************)
(* A model of gosmig, a small SQL migration tool written in Go.           *)
(*                                                                         *)
(* The model follows the commands of the tool (up, up-one, down, status,   *)
(* version) one database call at a time: every action below is one call    *)
(* on the database (or one call of a migration's own Up/Down function)     *)
(* together with the local computation of the command that follows it up   *)
(* to the next call.  The database the commands talk to is the table       *)
(* "gosmig" (the ledger, a set of versions with a primary key) and the     *)
(* schema the migrations change (for each version, whether the effect of   *)
(* its Up function is present).  Every call on the database can fail.      *)
(***************************************************************************)
EXTENDS Integers, Sequences, FiniteSets, TLC

\* Bounds of the model.
MaxVersion == 3
MaxLimit == 2

Versions == 1..MaxVersion
Procs == {1, 2}

VARIABLES
    migrations,           \* per process: the []Migration slice (sorted in place)
    ledger,               \* committed rows of table gosmig (set of versions)
    schema,               \* versions whose Up effect is durably present
    tx,                   \* per process: the open transaction and its writes
    pc,                   \* per process: position in the running command
    cmd,                  \* per process: the command being run
    limit,                \* per process: runCmdUp's limit argument
    dbVersion,            \* per process: runCmd*'s local dbVersion (snapshot)
    idx,                  \* per process: index of the candidate in migrations
    nbAppliedMigrations,  \* per process: runCmdUp's counter
    fnErr,                \* per process: error returned by fn inside executeInTx
    err,                  \* per process: error returned by the command
    output,               \* per process: lines written to output by the command
    calls,                \* per process: calls made by the running command
    osExitReturns,        \* per process: whether the osExit given to newGosmig
                          \* returns to its caller (os.Exit does not)
    hostCalls             \* per process: calls made by newGosmig's closure itself

dbVars == <<ledger, schema, tx>>
hostVars == <<osExitReturns, hostCalls>>
vars == <<migrations, ledger, schema, tx, pc, cmd, limit, dbVersion, idx,
          nbAppliedMigrations, fnErr, err, output, calls, osExitReturns,
          hostCalls>>

-----------------------------------------------------------------------------
(* Migration definitions (migration.go)                                    *)

\* A *UpDown pointer: nil, or a struct whose Up and Down may each be nil
\* (TRUE = the function is set).
NilUpDown == [nil |-> TRUE, Up |-> FALSE, Down |-> FALSE]
UpDown(up, down) == [nil |-> FALSE, Up |-> up, Down |-> down]

Migration(version, upDown, upDownNoTX) ==
    [Version |-> version, UpDown |-> upDown, UpDownNoTX |-> upDownNoTX]

\* A valid transactional / non-transactional migration of version v.
TxMigration(v) == Migration(v, UpDown(TRUE, TRUE), NilUpDown)
NoTxMigration(v) == Migration(v, NilUpDown, UpDown(TRUE, TRUE))

\* The comparison functions handed to slices.SortFunc.
CmpAsc(a, b) == a.Version - b.Version
CmpDesc_Asc(a, b) == a.Version - b.Version
CmpDesc(a, b) == b.Version - a.Version

\* slices.SortFunc on a short slice is an insertion sort: element i is
\* swapped towards the front while it compares less than its predecessor.
RECURSIVE SiftAsc(_, _)
SiftAsc(s, j) ==
    IF j > 1 /\ CmpAsc(s[j], s[j - 1]) < 0
    THEN SiftAsc([s EXCEPT ![j] = s[j - 1], ![j - 1] = s[j]], j - 1)
    ELSE s

RECURSIVE InsertionSortAsc(_, _)
InsertionSortAsc(s, i) ==
    IF i > Len(s) THEN s ELSE InsertionSortAsc(SiftAsc(s, i), i + 1)

RECURSIVE SiftDesc(_, _)
SiftDesc(s, j) ==
    IF j > 1 /\ CmpDesc(s[j], s[j - 1]) < 0
    THEN SiftDesc([s EXCEPT ![j] = s[j - 1], ![j - 1] = s[j]], j - 1)
    ELSE s

RECURSIVE InsertionSortDesc(_, _)
InsertionSortDesc(s, i) ==
    IF i > Len(s) THEN s ELSE InsertionSortDesc(SiftDesc(s, i), i + 1)

sortMigrationsAsc_NoSort(migs) == migs
sortMigrationsAsc(migs) == InsertionSortAsc(migs, 2)
sortMigrationsDesc_NoSort(migs) == migs
sortMigrationsDesc(migs) == InsertionSortDesc(migs, 2)

\* Migration.validate: the first defect of one definition, "" when none.
validate_VersionOnly(m) ==
    IF m.Version <= 0 THEN "migration version must be > 0" ELSE ""
validate(m) ==
    IF m.Version <= 0 THEN "migration version must be > 0"
    ELSE IF m.UpDown.nil /\ m.UpDownNoTX.nil
    THEN "migration " \o ToString(m.Version)
             \o " must have UpDown xor UpDownNoTX fields defined"
    ELSE IF ~m.UpDown.nil /\ ~m.UpDownNoTX.nil
    THEN "migration " \o ToString(m.Version)
             \o " must have only one of UpDown or UpDownNoTX fields defined"
    ELSE IF ~m.UpDown.nil /\ (~m.UpDown.Up \/ ~m.UpDown.Down)
    THEN "migration " \o ToString(m.Version)
             \o " UpDown must have both Up and Down functions defined"
    ELSE IF ~m.UpDownNoTX.nil /\ (~m.UpDownNoTX.Up \/ ~m.UpDownNoTX.Down)
    THEN "migration " \o ToString(m.Version)
             \o " UpDownNoTX must have both Up and Down functions defined"
    ELSE ""

\* validateMigrations returns nil exactly when no definition has a defect
\* and no version is counted more than once.
migVersionCounters(migs, version) ==
    Cardinality({i \in 1..Len(migs) : migs[i].Version = version})

validateMigrationsOK(migs) ==
    /\ \A i \in 1..Len(migs) : validate(migs[i]) = ""
    /\ \A i \in 1..Len(migs) : migVersionCounters(migs, migs[i].Version) <= 1

\* The registries the commands are run with: newGosmig hands a registry to
\* the commands only when it is not empty and validateMigrations accepts it.
\* The slice is in any order.
ValidMigrations == {TxMigration(v) : v \in Versions}
                       \cup {NoTxMigration(v) : v \in Versions}

Registries ==
    {migs \in UNION {[1..n -> ValidMigrations] : n \in 1..MaxVersion} :
        validateMigrationsOK(migs)}

VersionsOf(migs) == {migs[i].Version : i \in 1..Len(migs)}

-----------------------------------------------------------------------------
(* The database: table gosmig and the schema                               *)

\* A transaction handle: whether it is open, the ledger rows it inserted
\* (rows) and deleted (gone), and the Up effects it made and undid, all
\* invisible to others until Commit.
NoTx == [open |-> FALSE, rows |-> {}, gone |-> {}, made |-> {}, undone |-> {}]
OpenTx == [open |-> TRUE, rows |-> {}, gone |-> {}, made |-> {}, undone |-> {}]

\* The rows a statement of process p sees: the committed ones, and inside
\* p's transaction its own writes.
Visible(p) ==
    IF tx[p].open THEN (ledger \cup tx[p].rows) \ tx[p].gone ELSE ledger

SetMax(S) == CHOOSE x \in S : \A y \in S : y <= x

\* selectDBVersionSQL: SELECT COALESCE(MAX(version), 0) FROM gosmig
selectDBVersion(rows) == IF rows = {} THEN 0 ELSE SetMax(rows)

\* version is the table's PRIMARY KEY (createMigsTblSQL): an insert of a
\* version already there is rejected, and an insert of a version whose row
\* another open transaction has inserted or deleted waits for that
\* transaction to end.
DuplicateKey_Never(p, version) == FALSE
DuplicateKey(p, version) == version \in Visible(p)
Blocked(p, version) ==
    \E q \in Procs \ {p} :
        tx[q].open /\ version \in (tx[q].rows \cup tx[q].gone)

\* deleteMigVersionSQL: the DELETE looks at the rows its statement sees.  A
\* row another open transaction has inserted is not among them (no row is
\* deleted, nothing is waited for); a row another open transaction has
\* deleted is locked, and the DELETE waits for that transaction to end.
BlockedDelete(p, version) ==
    \E q \in Procs \ {p} : tx[q].open /\ version \in tx[q].gone

\* The durable state after Commit of transaction t.
CommitLedger(t) == (ledger \cup t.rows) \ t.gone
CommitSchema(t) == (schema \cup t.made) \ t.undone

\* The durable state after Rollback of transaction t: its writes are dropped.
RollbackLedger(t) == ledger
RollbackSchema_Keeps(t) == CommitSchema(t)
RollbackSchema(t) == schema

-----------------------------------------------------------------------------
(* Errors and output lines                                                 *)

\* An error is the chain of its messages, outermost wrapper first; nil is
\* the empty chain.
nil == <<>>
DBError == "db error"          \* whatever error the driver returned
ActionError == "action error"  \* whatever error a migration's Up/Down returned

errDBVersionChangedUp == "database version changed while applying migration up"
errDBVersionChangedDown == "database version changed while applying migration down"

getDBVersionErr == <<"failed to get current DB version", DBError>>
insertDBVersionErr(version) ==
    <<"failed to insert migration version " \o ToString(version)
          \o " into migrations table", DBError>>
deleteDBVersionErr(version) ==
    <<"failed to delete migration version " \o ToString(version)
          \o " from migrations table", DBError>>
guardUpErr(version, current) ==
    <<errDBVersionChangedUp,
      "migration version " \o ToString(version)
          \o " <= current DB version " \o ToString(current)>>
guardDownErr(version, current) ==
    <<errDBVersionChangedDown,
      "migration version " \o ToString(version)
          \o " > current DB version " \o ToString(current)>>
upErr(version) ==
    <<"failed to apply migration.up version " \o ToString(version), ActionError>>
downErr(version) ==
    <<"failed to apply migration.down version " \o ToString(version), ActionError>>
beginTxErr == <<"failed to begin transaction", DBError>>
commitErr == <<"failed to commit transaction", DBError>>
inTxErr(e) == <<"failed to execute in transaction">> \o e
noTxErr(e) == <<"failed to execute without transaction">> \o e
executeInTxErr_Bare(e) == e
executeInTxErr(e) == <<"execute in TX">> \o e
executeNoTxErr(e) == <<"execute without TX">> \o e

AppliedLine(version) == "[x] Applied migration version " \o ToString(version)
SummaryLine(n) == ToString(n) \o " migration(s) applied"
NoMigrationsLine == "No migrations to apply"
RolledBackLine(version) ==
    "[x]-->[ ] Rolled back migration version " \o ToString(version)
NoRollbackLine == "No migrations to roll back"

\* One entry of calls: the call, the migration version it is about (0 when
\* none), whether it returned without error, and the version a getDBVersion
\* returned (0 for the other calls).
Call(op, version, ok, val) ==
    [op |-> op, version |-> version, ok |-> ok, val |-> val]

-----------------------------------------------------------------------------
(* Initial state                                                           *)

\* Every process was built (newGosmig) with the same valid registry, in any
\* order; no command runs.  The gosmig table holds any set of versions, left
\* by earlier runs of this or of another registry, and the schema holds the
\* Up effect of exactly the versions the table records.
Init ==
    /\ \E migs \in Registries : migrations = [p \in Procs |-> migs]
    /\ ledger \in SUBSET Versions
    /\ schema = ledger
    /\ tx = [p \in Procs |-> NoTx]
    /\ pc = [p \in Procs |-> "idle"]
    /\ cmd = [p \in Procs |-> "none"]
    /\ limit = [p \in Procs |-> 0]
    /\ dbVersion = [p \in Procs |-> 0]
    /\ idx = [p \in Procs |-> 0]
    /\ nbAppliedMigrations = [p \in Procs |-> 0]
    /\ fnErr = [p \in Procs |-> nil]
    /\ err = [p \in Procs |-> nil]
    /\ output = [p \in Procs |-> <<>>]
    /\ calls = [p \in Procs |-> <<>>]
    /\ osExitReturns = [p \in Procs |-> TRUE]
    /\ hostCalls = [p \in Procs |-> <<>>]

-----------------------------------------------------------------------------
(* Helpers shared by the commands                                          *)

\* getDBVersion's query, as process p sees the table.
getDBVersion(p) == selectDBVersion(Visible(p))

\* The candidate of the running command and its version.
Candidate(p) == migrations[p][idx[p]]
CandidateVersion(p) == migrations[p][idx[p]].Version

\* runCmdUp's skip test (continue) and runCmdDown's.
SkipUp_Less(version, dbv) == version < dbv
SkipUp(version, dbv) == version <= dbv
SkipDown(version, dbv) == version > dbv

\* The first index from `from` on that runCmdUp's loop does not skip; 0
\* when none.
NextUp_FromStart(migs, from, dbv) ==
    IF \E j \in 1..Len(migs) : ~SkipUp(migs[j].Version, dbv)
    THEN CHOOSE j \in 1..Len(migs) :
             /\ ~SkipUp(migs[j].Version, dbv)
             /\ \A k \in 1..(j - 1) : SkipUp(migs[k].Version, dbv)
    ELSE 0
NextUp(migs, from, dbv) ==
    IF \E j \in from..Len(migs) : ~SkipUp(migs[j].Version, dbv)
    THEN CHOOSE j \in from..Len(migs) :
             /\ ~SkipUp(migs[j].Version, dbv)
             /\ \A k \in from..(j - 1) : SkipUp(migs[k].Version, dbv)
    ELSE 0

\* The first index that runCmdDown's loop does not skip; 0 when none.
NextDown_Lowest(migs, dbv) ==
    IF \E j \in 1..Len(migs) : ~SkipDown(migs[j].Version, dbv)
    THEN CHOOSE j \in 1..Len(migs) :
             /\ ~SkipDown(migs[j].Version, dbv)
             /\ \A k \in (j + 1)..Len(migs) : SkipDown(migs[k].Version, dbv)
    ELSE 0
NextDown(migs, dbv) ==
    IF \E j \in 1..Len(migs) : ~SkipDown(migs[j].Version, dbv)
    THEN CHOOSE j \in 1..Len(migs) :
             /\ ~SkipDown(migs[j].Version, dbv)
             /\ \A k \in 1..(j - 1) : SkipDown(migs[k].Version, dbv)
    ELSE 0

\* if migration.UpDown != nil: executeInTx (BeginTx comes first), else
\* executeNoTx (fn runs at once, its first call being the guard's read).
Dispatch_NeverTx(m) == "guard"
Dispatch(m) == IF ~m.UpDown.nil THEN "begin" ELSE "guard"

\* runCmdUp's break test after a success.
LimitReached_NoZeroTest(lim, nb) == nb >= lim
LimitReached_OffByOne(lim, nb) == lim > 0 /\ nb > lim
LimitReached(lim, nb) == lim > 0 /\ nb = lim

\* The guards of migrateUp and migrateDown: whether the candidate is refused
\* given the version just read.
GuardUpRefuses_Less(version, current) == version < current
GuardUpRefuses(version, current) == version <= current
GuardDownRefuses_GreaterEq(version, current) == version >= current
GuardDownRefuses(version, current) == version > current

\* The command returns e having written out.
Return(p, e, out) ==
    /\ pc' = [pc EXCEPT ![p] = "done"]
    /\ err' = [err EXCEPT ![p] = e]
    /\ output' = [output EXCEPT ![p] = out]

\* runCmdUp from its loop on, with nb migrations applied and out written:
\* the loop goes on with the candidate at index j, or (j = 0: no candidate
\* left, or break) ends and the closing line is written.
runCmdUpLoop(p, migs, j, nb, out) ==
    /\ nbAppliedMigrations' = [nbAppliedMigrations EXCEPT ![p] = nb]
    /\ idx' = [idx EXCEPT ![p] = j]
    /\ IF j = 0
       THEN Return(p, nil,
                   Append(out, IF nb = 0 THEN NoMigrationsLine
                               ELSE SummaryLine(nb)))
       ELSE /\ pc' = [pc EXCEPT ![p] = Dispatch(migs[j])]
            /\ err' = [err EXCEPT ![p] = nil]
            /\ output' = [output EXCEPT ![p] = out]

\* executeInTx / executeNoTx returned nil for the candidate: runCmdUp writes
\* its line, counts, and breaks or goes on; runCmdDown writes its line and
\* returns.
UnitSucceeded_DownGoesOn(p) ==
    IF cmd[p] = "up"
    THEN runCmdUpLoop(p, migrations[p],
                      IF LimitReached(limit[p], nbAppliedMigrations[p] + 1)
                      THEN 0
                      ELSE NextUp(migrations[p], idx[p] + 1, dbVersion[p]),
                      nbAppliedMigrations[p] + 1,
                      Append(output[p], AppliedLine(CandidateVersion(p))))
    ELSE IF idx[p] < Len(migrations[p])
    THEN /\ idx' = [idx EXCEPT ![p] = @ + 1]
         /\ pc' = [pc EXCEPT ![p] = Dispatch(migrations[p][idx[p] + 1])]
         /\ output' = [output EXCEPT ![p] =
                Append(@, RolledBackLine(CandidateVersion(p)))]
         /\ UNCHANGED <<err, nbAppliedMigrations>>
    ELSE /\ Return(p, nil, Append(output[p], RolledBackLine(CandidateVersion(p))))
         /\ UNCHANGED <<idx, nbAppliedMigrations>>
UnitSucceeded(p) ==
    IF cmd[p] = "up"
    THEN runCmdUpLoop(p, migrations[p],
                      IF LimitReached(limit[p], nbAppliedMigrations[p] + 1)
                      THEN 0
                      ELSE NextUp(migrations[p], idx[p] + 1, dbVersion[p]),
                      nbAppliedMigrations[p] + 1,
                      Append(output[p], AppliedLine(CandidateVersion(p))))
    ELSE /\ Return(p, nil, Append(output[p], RolledBackLine(CandidateVersion(p))))
         /\ UNCHANGED <<idx, nbAppliedMigrations>>

\* executeInTx / executeNoTx returned e for the candidate: the command
\* wraps it and returns at once.
UnitFailed_Continue(p, e) ==
    IF cmd[p] = "up"
    THEN runCmdUpLoop(p, migrations[p],
                      NextUp(migrations[p], idx[p] + 1, dbVersion[p]),
                      nbAppliedMigrations[p], output[p])
    ELSE /\ Return(p, e, output[p])
         /\ UNCHANGED <<idx, nbAppliedMigrations>>
UnitFailed(p, e) ==
    /\ Return(p, e, output[p])
    /\ UNCHANGED <<idx, nbAppliedMigrations>>

\* fn (migrateUp's or migrateDown's closure) returned e.  Inside
\* executeInTx the transaction is rolled back next; executeNoTx returns at
\* once.
FnFailed(p, e) ==
    IF tx[p].open
    THEN /\ pc' = [pc EXCEPT ![p] = "rollback"]
         /\ fnErr' = [fnErr EXCEPT ![p] = inTxErr(e)]
         /\ UNCHANGED <<err, output, idx, nbAppliedMigrations>>
    ELSE /\ UnitFailed(p, executeNoTxErr(noTxErr(e)))
         /\ UNCHANGED fnErr

Record(p, op, version, ok, val) ==
    calls' = [calls EXCEPT ![p] = Append(@, Call(op, version, ok, val))]

\* The Up function of version v took effect on the handle of p (the open
\* transaction, or the database itself), or its Down function did.
UpEffect_Nothing(p, v) == UNCHANGED <<schema, tx>>
UpEffect(p, v) ==
    IF tx[p].open
    THEN /\ tx' = [tx EXCEPT ![p].made = @ \cup {v}, ![p].undone = @ \ {v}]
         /\ UNCHANGED schema
    ELSE /\ schema' = schema \cup {v}
         /\ UNCHANGED tx

DownEffect(p, v) ==
    IF tx[p].open
    THEN /\ tx' = [tx EXCEPT ![p].undone = @ \cup {v}, ![p].made = @ \ {v}]
         /\ UNCHANGED schema
    ELSE /\ schema' = schema \ {v}
         /\ UNCHANGED tx

-----------------------------------------------------------------------------
(* up / up-one: runCmdUp                                                   *)

\* runCmdUp is called with limit lim: it sorts the slice, reads the current
\* version once and enters its loop.
runCmdUp(p, lim) ==
    /\ pc[p] = "idle"
    /\ LET sorted == sortMigrationsAsc(migrations[p]) IN
       /\ migrations' = [migrations EXCEPT ![p] = sorted]
       /\ cmd' = [cmd EXCEPT ![p] = "up"]
       /\ limit' = [limit EXCEPT ![p] = lim]
       /\ fnErr' = [fnErr EXCEPT ![p] = nil]
       /\ \E ok \in BOOLEAN :
            IF ok
            THEN /\ calls' = [calls EXCEPT ![p] =
                        <<Call("getDBVersion", 0, TRUE, getDBVersion(p))>>]
                 /\ dbVersion' = [dbVersion EXCEPT ![p] = getDBVersion(p)]
                 /\ runCmdUpLoop(p, sorted, NextUp(sorted, 1, getDBVersion(p)),
                                 0, <<>>)
            ELSE /\ calls' = [calls EXCEPT ![p] =
                        <<Call("getDBVersion", 0, FALSE, 0)>>]
                 /\ dbVersion' = [dbVersion EXCEPT ![p] = 0]
                 /\ nbAppliedMigrations' = [nbAppliedMigrations EXCEPT ![p] = 0]
                 /\ idx' = [idx EXCEPT ![p] = 0]
                 /\ Return(p, getDBVersionErr, <<>>)
    /\ UNCHANGED dbVars
    /\ UNCHANGED hostVars

\* migrateUp's closure, first call: the guard reads the version again and
\* refuses the candidate when version <= dbVersion.
migrateUpGuard(p) ==
    /\ pc[p] = "guard" /\ cmd[p] = "up"
    /\ \E ok \in BOOLEAN :
         IF ~ok
         THEN /\ Record(p, "getDBVersion", CandidateVersion(p), FALSE, 0)
              /\ FnFailed(p, getDBVersionErr)
         ELSE /\ Record(p, "getDBVersion", CandidateVersion(p), TRUE,
                        getDBVersion(p))
              /\ IF GuardUpRefuses(CandidateVersion(p), getDBVersion(p))
                 THEN FnFailed(p, guardUpErr(CandidateVersion(p), getDBVersion(p)))
                 ELSE /\ pc' = [pc EXCEPT ![p] = "action"]
                      /\ UNCHANGED <<err, output, fnErr, idx, nbAppliedMigrations>>
    /\ UNCHANGED <<migrations, cmd, limit, dbVersion>>
    /\ UNCHANGED dbVars
    /\ UNCHANGED hostVars

\* migrateUp's closure, second call: the migration's Up function, on the
\* transaction handle or on the database itself.  When it returns an error
\* it may have made its change or not.
migrateUpAction_GoesOn(p) ==
    /\ pc[p] = "action" /\ cmd[p] = "up"
    /\ \E ok \in BOOLEAN :
         /\ Record(p, "up", CandidateVersion(p), ok, 0)
         /\ pc' = [pc EXCEPT ![p] = "mutate"]
         /\ \/ UpEffect(p, CandidateVersion(p))
            \/ ~ok /\ UNCHANGED <<schema, tx>>
         /\ UNCHANGED <<err, output, fnErr, idx, nbAppliedMigrations>>
    /\ UNCHANGED <<migrations, cmd, limit, dbVersion>>
    /\ UNCHANGED ledger
    /\ UNCHANGED hostVars
migrateUpAction(p) ==
    /\ pc[p] = "action" /\ cmd[p] = "up"
    /\ \E ok \in BOOLEAN :
         /\ Record(p, "up", CandidateVersion(p), ok, 0)
         /\ IF ok
            THEN /\ pc' = [pc EXCEPT ![p] = "mutate"]
                 /\ UpEffect(p, CandidateVersion(p))
                 /\ UNCHANGED <<err, output, fnErr, idx, nbAppliedMigrations>>
            ELSE /\ FnFailed(p, upErr(CandidateVersion(p)))
                 /\ \/ UpEffect(p, CandidateVersion(p))
                    \/ UNCHANGED <<schema, tx>>
    /\ UNCHANGED <<migrations, cmd, limit, dbVersion>>
    /\ UNCHANGED ledger
    /\ UNCHANGED hostVars

\* migrateUp's closure, third call: insertDBVersion.  Without a transaction
\* the row is durable at once and executeNoTx returns nil.
migrateUpInsert(p) ==
    /\ pc[p] = "mutate" /\ cmd[p] = "up"
    /\ ~Blocked(p, CandidateVersion(p))
    /\ \E ok \in BOOLEAN :
         /\ ok => ~DuplicateKey(p, CandidateVersion(p))
         /\ Record(p, "insert", CandidateVersion(p), ok, 0)
         /\ IF ~ok
            THEN /\ FnFailed(p, insertDBVersionErr(CandidateVersion(p)))
                 /\ UNCHANGED <<ledger, tx>>
            ELSE IF tx[p].open
            THEN /\ tx' = [tx EXCEPT ![p].rows = @ \cup {CandidateVersion(p)},
                                     ![p].gone = @ \ {CandidateVersion(p)}]
                 /\ pc' = [pc EXCEPT ![p] = "commit"]
                 /\ UNCHANGED <<ledger, err, output, fnErr, idx,
                                nbAppliedMigrations>>
            ELSE /\ ledger' = ledger \cup {CandidateVersion(p)}
                 /\ UnitSucceeded(p)
                 /\ UNCHANGED <<tx, fnErr>>
    /\ UNCHANGED <<migrations, cmd, limit, dbVersion>>
    /\ UNCHANGED schema
    /\ UNCHANGED hostVars

-----------------------------------------------------------------------------
(* executeInTx                                                             *)

\* db.BeginTx: on an error executeInTx returns without calling fn.
executeInTxBegin(p) ==
    /\ pc[p] = "begin"
    /\ \E ok \in BOOLEAN :
         /\ Record(p, "BeginTx", CandidateVersion(p), ok, 0)
         /\ IF ok
            THEN /\ tx' = [tx EXCEPT ![p] = OpenTx]
                 /\ pc' = [pc EXCEPT ![p] = "guard"]
                 /\ UNCHANGED <<err, output, idx, nbAppliedMigrations>>
            ELSE /\ UnitFailed(p, executeInTxErr(beginTxErr))
                 /\ UNCHANGED tx
    /\ UNCHANGED <<migrations, cmd, limit, dbVersion, fnErr>>
    /\ UNCHANGED <<ledger, schema>>
    /\ UNCHANGED hostVars

\* tx.Commit after fn returned nil: the transaction's writes become durable
\* together, or on an error none of them does.
executeInTxCommit_KeepsWrites(p) ==
    /\ pc[p] = "commit"
    /\ \E ok \in BOOLEAN :
         /\ Record(p, "Commit", CandidateVersion(p), ok, 0)
         /\ tx' = [tx EXCEPT ![p] = NoTx]
         /\ ledger' = CommitLedger(tx[p])
         /\ schema' = CommitSchema(tx[p])
         /\ IF ok
            THEN UnitSucceeded(p)
            ELSE UnitFailed(p, executeInTxErr(commitErr))
    /\ UNCHANGED <<migrations, cmd, limit, dbVersion, fnErr>>
    /\ UNCHANGED hostVars
executeInTxCommit(p) ==
    /\ pc[p] = "commit"
    /\ \E ok \in BOOLEAN :
         /\ Record(p, "Commit", CandidateVersion(p), ok, 0)
         /\ tx' = [tx EXCEPT ![p] = NoTx]
         /\ IF ok
            THEN /\ ledger' = CommitLedger(tx[p])
                 /\ schema' = CommitSchema(tx[p])
                 /\ UnitSucceeded(p)
            ELSE /\ UnitFailed(p, executeInTxErr(commitErr))
                 /\ UNCHANGED <<ledger, schema>>
    /\ UNCHANGED <<migrations, cmd, limit, dbVersion, fnErr>>
    /\ UNCHANGED hostVars

\* tx.Rollback after fn returned an error: the transaction's writes are
\* dropped, Rollback's own error is discarded and fn's error is returned.
executeInTxRollback_ReportsOwn(p) ==
    /\ pc[p] = "rollback"
    /\ \E ok \in BOOLEAN :
         /\ Record(p, "Rollback", CandidateVersion(p), ok, 0)
         /\ tx' = [tx EXCEPT ![p] = NoTx]
         /\ ledger' = RollbackLedger(tx[p])
         /\ schema' = RollbackSchema(tx[p])
         /\ UnitFailed(p, IF ok THEN executeInTxErr(fnErr[p])
                          ELSE executeInTxErr(<<"failed to roll back", DBError>>))
    /\ UNCHANGED <<migrations, cmd, limit, dbVersion, fnErr>>
    /\ UNCHANGED hostVars
executeInTxRollback(p) ==
    /\ pc[p] = "rollback"
    /\ \E ok \in BOOLEAN :
         /\ Record(p, "Rollback", CandidateVersion(p), ok, 0)
         /\ tx' = [tx EXCEPT ![p] = NoTx]
         /\ ledger' = RollbackLedger(tx[p])
         /\ schema' = RollbackSchema(tx[p])
         /\ UnitFailed(p, executeInTxErr(fnErr[p]))
    /\ UNCHANGED <<migrations, cmd, limit, dbVersion, fnErr>>
    /\ UNCHANGED hostVars

-----------------------------------------------------------------------------
(* down: runCmdDown                                                        *)

\* runCmdDown sorts the slice descending, reads the current version once
\* and dispatches the first migration whose version is <= it.
runCmdDown(p) ==
    /\ pc[p] = "idle"
    /\ LET sorted == sortMigrationsDesc(migrations[p]) IN
       /\ migrations' = [migrations EXCEPT ![p] = sorted]
       /\ cmd' = [cmd EXCEPT ![p] = "down"]
       /\ limit' = [limit EXCEPT ![p] = 0]
       /\ fnErr' = [fnErr EXCEPT ![p] = nil]
       /\ nbAppliedMigrations' = [nbAppliedMigrations EXCEPT ![p] = 0]
       /\ \E ok \in BOOLEAN :
            IF ok
            THEN LET j == NextDown(sorted, getDBVersion(p)) IN
                 /\ calls' = [calls EXCEPT ![p] =
                        <<Call("getDBVersion", 0, TRUE, getDBVersion(p))>>]
                 /\ dbVersion' = [dbVersion EXCEPT ![p] = getDBVersion(p)]
                 /\ idx' = [idx EXCEPT ![p] = j]
                 /\ IF j = 0
                    THEN Return(p, nil, <<NoRollbackLine>>)
                    ELSE /\ pc' = [pc EXCEPT ![p] = Dispatch(sorted[j])]
                         /\ err' = [err EXCEPT ![p] = nil]
                         /\ output' = [output EXCEPT ![p] = <<>>]
            ELSE /\ calls' = [calls EXCEPT ![p] =
                        <<Call("getDBVersion", 0, FALSE, 0)>>]
                 /\ dbVersion' = [dbVersion EXCEPT ![p] = 0]
                 /\ idx' = [idx EXCEPT ![p] = 0]
                 /\ Return(p, getDBVersionErr, <<>>)
    /\ UNCHANGED dbVars
    /\ UNCHANGED hostVars

\* migrateDown's closure, first call: the guard reads the version again and
\* refuses the candidate when version > dbVersion.
migrateDownGuard(p) ==
    /\ pc[p] = "guard" /\ cmd[p] = "down"
    /\ \E ok \in BOOLEAN :
         IF ~ok
         THEN /\ Record(p, "getDBVersion", CandidateVersion(p), FALSE, 0)
              /\ FnFailed(p, getDBVersionErr)
         ELSE /\ Record(p, "getDBVersion", CandidateVersion(p), TRUE,
                        getDBVersion(p))
              /\ IF GuardDownRefuses(CandidateVersion(p), getDBVersion(p))
                 THEN FnFailed(p, guardDownErr(CandidateVersion(p), getDBVersion(p)))
                 ELSE /\ pc' = [pc EXCEPT ![p] = "action"]
                      /\ UNCHANGED <<err, output, fnErr, idx, nbAppliedMigrations>>
    /\ UNCHANGED <<migrations, cmd, limit, dbVersion>>
    /\ UNCHANGED dbVars
    /\ UNCHANGED hostVars

\* migrateDown's closure, second call: the migration's Down function.  When
\* it returns an error it may have made its change or not.
migrateDownAction(p) ==
    /\ pc[p] = "action" /\ cmd[p] = "down"
    /\ \E ok \in BOOLEAN :
         /\ Record(p, "down", CandidateVersion(p), ok, 0)
         /\ IF ok
            THEN /\ pc' = [pc EXCEPT ![p] = "mutate"]
                 /\ DownEffect(p, CandidateVersion(p))
                 /\ UNCHANGED <<err, output, fnErr, idx, nbAppliedMigrations>>
            ELSE /\ FnFailed(p, downErr(CandidateVersion(p)))
                 /\ \/ DownEffect(p, CandidateVersion(p))
                    \/ UNCHANGED <<schema, tx>>
    /\ UNCHANGED <<migrations, cmd, limit, dbVersion>>
    /\ UNCHANGED ledger
    /\ UNCHANGED hostVars

\* migrateDown's closure, third call: deleteDBVersion.  The DELETE succeeds
\* whether or not a row with that version is there.
migrateDownDelete(p) ==
    /\ pc[p] = "mutate" /\ cmd[p] = "down"
    /\ ~BlockedDelete(p, CandidateVersion(p))
    /\ \E ok \in BOOLEAN :
         /\ Record(p, "delete", CandidateVersion(p), ok, 0)
         /\ IF ~ok
            THEN /\ FnFailed(p, deleteDBVersionErr(CandidateVersion(p)))
                 /\ UNCHANGED <<ledger, tx>>
            ELSE IF tx[p].open
            THEN /\ tx' = [tx EXCEPT
                              ![p].gone = @ \cup ({CandidateVersion(p)} \cap Visible(p)),
                              ![p].rows = @ \ {CandidateVersion(p)}]
                 /\ pc' = [pc EXCEPT ![p] = "commit"]
                 /\ UNCHANGED <<ledger, err, output, fnErr, idx,
                                nbAppliedMigrations>>
            ELSE /\ ledger' = ledger \ {CandidateVersion(p)}
                 /\ UnitSucceeded(p)
                 /\ UNCHANGED <<tx, fnErr>>
    /\ UNCHANGED <<migrations, cmd, limit, dbVersion>>
    /\ UNCHANGED schema
    /\ UNCHANGED hostVars

-----------------------------------------------------------------------------
(* status and version: runCmdStatus, runCmdVersion                         *)

\* fmt's %-10d, %-10s and %-12s: the value, then spaces up to the width.
RECURSIVE Spaces(_)
Spaces(n) == IF n <= 0 THEN "" ELSE " " \o Spaces(n - 1)

RECURSIVE Digits(_)
Digits(n) == IF n < 10 THEN 1 ELSE 1 + Digits(n \div 10)

StatusApplied == "[x] APPLIED"
StatusPending == "[ ] PENDING"

\* The lines of runCmdStatus ("%-10s %-12s") and of runCmdVersion, without
\* their newlines.
StatusHeader == "VERSION" \o Spaces(3) \o " " \o "STATUS" \o Spaces(6)
StatusLine(m, dbv) ==
    ToString(m.Version) \o Spaces(10 - Digits(m.Version)) \o " "
        \o (IF m.Version <= dbv THEN StatusApplied ELSE StatusPending)
        \o Spaces(1)
VersionLines(dbv) == <<"Current database version:", ToString(dbv)>>

\* runCmdStatus sorts descending, reads the version once and writes one
\* line per migration of the slice.
runCmdStatus(p) ==
    /\ pc[p] = "idle"
    /\ LET sorted == sortMigrationsDesc(migrations[p]) IN
       /\ migrations' = [migrations EXCEPT ![p] = sorted]
       /\ cmd' = [cmd EXCEPT ![p] = "status"]
       /\ \E ok \in BOOLEAN :
            IF ok
            THEN /\ calls' = [calls EXCEPT ![p] =
                        <<Call("getDBVersion", 0, TRUE, getDBVersion(p))>>]
                 /\ dbVersion' = [dbVersion EXCEPT ![p] = getDBVersion(p)]
                 /\ Return(p, nil,
                           <<StatusHeader>> \o
                               [i \in 1..Len(sorted) |->
                                   StatusLine(sorted[i], getDBVersion(p))])
            ELSE /\ calls' = [calls EXCEPT ![p] =
                        <<Call("getDBVersion", 0, FALSE, 0)>>]
                 /\ dbVersion' = [dbVersion EXCEPT ![p] = 0]
                 /\ Return(p, getDBVersionErr, <<>>)
    /\ UNCHANGED <<limit, fnErr, nbAppliedMigrations, idx>>
    /\ UNCHANGED dbVars
    /\ UNCHANGED hostVars

\* runCmdVersion reads the version and writes it.
runCmdVersion_Deletes(p) ==
    /\ pc[p] = "idle"
    /\ cmd' = [cmd EXCEPT ![p] = "version"]
    /\ calls' = [calls EXCEPT ![p] =
           <<Call("getDBVersion", 0, TRUE, getDBVersion(p))>>]
    /\ dbVersion' = [dbVersion EXCEPT ![p] = getDBVersion(p)]
    /\ Return(p, nil, VersionLines(getDBVersion(p)))
    /\ ledger' = ledger \ {getDBVersion(p)}
    /\ UNCHANGED <<migrations, limit, fnErr, nbAppliedMigrations, idx>>
    /\ UNCHANGED <<schema, tx>>
    /\ UNCHANGED hostVars
runCmdVersion(p) ==
    /\ pc[p] = "idle"
    /\ cmd' = [cmd EXCEPT ![p] = "version"]
    /\ \E ok \in BOOLEAN :
         IF ok
         THEN /\ calls' = [calls EXCEPT ![p] =
                     <<Call("getDBVersion", 0, TRUE, getDBVersion(p))>>]
              /\ dbVersion' = [dbVersion EXCEPT ![p] = getDBVersion(p)]
              /\ Return(p, nil, VersionLines(getDBVersion(p)))
         ELSE /\ calls' = [calls EXCEPT ![p] =
                     <<Call("getDBVersion", 0, FALSE, 0)>>]
              /\ dbVersion' = [dbVersion EXCEPT ![p] = 0]
              /\ Return(p, getDBVersionErr, <<>>)
    /\ UNCHANGED <<migrations, limit, fnErr, nbAppliedMigrations, idx>>
    /\ UNCHANGED dbVars
    /\ UNCHANGED hostVars

-----------------------------------------------------------------------------
(* The end of an invocation                                                *)

\* The command has returned to newGosmig's closure, which returns in turn:
\* the invocation is over and its locals are gone.  The slice keeps the
\* order the command sorted it into.
Exit(p) ==
    /\ pc[p] = "done"
    /\ pc' = [pc EXCEPT ![p] = "idle"]
    /\ cmd' = [cmd EXCEPT ![p] = "none"]
    /\ limit' = [limit EXCEPT ![p] = 0]
    /\ dbVersion' = [dbVersion EXCEPT ![p] = 0]
    /\ idx' = [idx EXCEPT ![p] = 0]
    /\ nbAppliedMigrations' = [nbAppliedMigrations EXCEPT ![p] = 0]
    /\ fnErr' = [fnErr EXCEPT ![p] = nil]
    /\ err' = [err EXCEPT ![p] = nil]
    /\ output' = [output EXCEPT ![p] = <<>>]
    /\ calls' = [calls EXCEPT ![p] = <<>>]
    /\ UNCHANGED <<migrations, ledger, schema, tx>>
    /\ UNCHANGED hostVars

-----------------------------------------------------------------------------
(* Specifications                                                          *)

\* One step of process p: it starts a command, or the command it runs
\* makes its next call, or the invocation ends.
Step(p) ==
    \/ \E lim \in 0..MaxLimit : runCmdUp(p, lim)
    \/ migrateUpGuard(p)
    \/ migrateUpAction(p)
    \/ migrateUpInsert(p)
    \/ runCmdDown(p)
    \/ migrateDownGuard(p)
    \/ migrateDownAction(p)
    \/ migrateDownDelete(p)
    \/ executeInTxBegin(p)
    \/ executeInTxCommit(p)
    \/ executeInTxRollback(p)
    \/ runCmdStatus(p)
    \/ runCmdVersion(p)
    \/ Exit(p)

\* A single process runs commands one after the other against a database
\* nobody else touches.
Next == Step(1)

Spec == Init /\ [][Next]_vars

\* Two processes run up, up-one and down against the same database at the
\* same time, each with its own copy of the same registry.
MaxVersionConc == 2

RegistriesConc ==
    {migs \in Registries : VersionsOf(migs) \subseteq 1..MaxVersionConc}

InitConc ==
    /\ Init
    /\ migrations[1] \in RegistriesConc
    /\ ledger \subseteq 1..MaxVersionConc

StepUp(p) ==
    \/ \E lim \in {0, 1} : runCmdUp(p, lim)
    \/ migrateUpGuard(p)
    \/ migrateUpAction(p)
    \/ migrateUpInsert(p)
    \/ executeInTxBegin(p)
    \/ executeInTxCommit(p)
    \/ executeInTxRollback(p)
    \/ Exit(p)

StepDown(p) ==
    \/ runCmdDown(p)
    \/ migrateDownGuard(p)
    \/ migrateDownAction(p)
    \/ migrateDownDelete(p)

NextConc == \E p \in Procs : StepUp(p) \/ StepDown(p)

SpecConc == InitConc /\ [][NextConc]_vars

\* Two processes run up and up-one at the same time, and nothing else.
NextUpConc == \E p \in Procs : StepUp(p)

SpecUpConc == InitConc /\ [][NextUpConc]_vars

\* Two processes run down at the same time, and nothing else.
StepDownOnly(p) ==
    \/ StepDown(p)
    \/ executeInTxBegin(p)
    \/ executeInTxCommit(p)
    \/ executeInTxRollback(p)
    \/ Exit(p)

NextDownConc == \E p \in Procs : StepDownOnly(p)

SpecDownConc == InitConc /\ [][NextDownConc]_vars

\* A single process runs commands one after the other on a database that
\* was empty when it started: no gosmig row, no schema change.
InitFresh ==
    /\ Init
    /\ ledger = {}

SpecFresh == InitFresh /\ [][Next]_vars

\* The single process again, with every call of a running command
\* returning: the command is synchronous and does nothing but make its
\* next call, so a command that has a next call makes it.  Nothing obliges
\* anybody to start a command.
CommandStep(p) ==
    \/ migrateUpGuard(p)
    \/ migrateUpAction(p)
    \/ migrateUpInsert(p)
    \/ migrateDownGuard(p)
    \/ migrateDownAction(p)
    \/ migrateDownDelete(p)
    \/ executeInTxBegin(p)
    \/ executeInTxCommit(p)
    \/ executeInTxRollback(p)

SpecLive == Init /\ [][Next]_vars /\ WF_vars(CommandStep(1))

-----------------------------------------------------------------------------
(* validateMigrations and newGosmig (the registry it is given may be       *)
(* malformed)                                                              *)

\* Bounds of the registries newGosmig is given: versions 0..MaxVersionRun,
\* at most MaxLenRun definitions.
MaxVersionRun == 1
MaxLenRun == 3

\* strings.Join
RECURSIVE Join(_, _)
Join(elems, sep) ==
    IF elems = <<>> THEN ""
    ELSE IF Len(elems) = 1 THEN elems[1]
    ELSE elems[1] \o sep \o Join(Tail(elems), sep)

\* validateMigrations, first loop: the error texts of the definitions that
\* validate() rejects, in the order of the slice.
migValidationErrs_FirstOnly(migs) ==
    LET all == SelectSeq([i \in 1..Len(migs) |-> validate(migs[i])],
                         LAMBDA e : e # "") IN
    IF all = <<>> THEN <<>> ELSE <<all[1]>>
migValidationErrs(migs) ==
    SelectSeq([i \in 1..Len(migs) |-> validate(migs[i])], LAMBDA e : e # "")

\* validateMigrations, second loop: one text per version counted more than
\* once, in the order in which the map is iterated, which Go leaves open.
DuplicatedVersions_None(migs) == {}
DuplicatedVersions(migs) ==
    {v \in VersionsOf(migs) : migVersionCounters(migs, v) > 1}

duplicateErr(migs, version) ==
    "migration version " \o ToString(version) \o " is defined "
        \o ToString(migVersionCounters(migs, version)) \o " times"

MapOrders(S) ==
    {order \in [1..Cardinality(S) -> S] : \A x \in S : \E i \in DOMAIN order : order[i] = x}

\* validateMigrations, given the order in which the map yields the
\* duplicated versions: nil, or the one error joining every text.
validationErrs(migs, order) ==
    migValidationErrs(migs)
        \o [i \in 1..Len(order) |-> duplicateErr(migs, order[i])]

invalidMigrationsErr(errs) == <<"invalid migration(s): " \o Join(errs, "; ")>>

validateMigrations_Accepts(migs, order) == nil
validateMigrations(migs, order) ==
    IF validationErrs(migs, order) = <<>> THEN nil
    ELSE invalidMigrationsErr(validationErrs(migs, order))

\* The registries newGosmig may be given: any slice of definitions, each
\* with any version from 0 on and with no mode, one mode or both modes; a
\* mode is complete or lacks a function (UpDown its Up, UpDownNoTX its
\* Down), and of two modes both are complete or both lack one.
ModePointers ==
    {<<NilUpDown, NilUpDown>>,
     <<UpDown(TRUE, TRUE), NilUpDown>>, <<NilUpDown, UpDown(TRUE, TRUE)>>,
     <<UpDown(FALSE, TRUE), NilUpDown>>, <<NilUpDown, UpDown(TRUE, FALSE)>>,
     <<UpDown(TRUE, TRUE), UpDown(TRUE, TRUE)>>,
     <<UpDown(FALSE, TRUE), UpDown(TRUE, FALSE)>>}

AnyMigrations ==
    {Migration(v, ab[1], ab[2]) : v \in 0..MaxVersionRun, ab \in ModePointers}

AnyRegistries == UNION {[1..n -> AnyMigrations] : n \in 0..MaxLenRun}

\* The other arguments of newGosmig that it refuses when nil, in the order
\* in which it tests them.
noMigrationsErr == <<"no migrations provided">>
nilArgErr(arg) ==
    IF arg = "connectToDB" THEN <<"connectToDB function is nil">>
    ELSE IF arg = "getArgs" THEN <<"getArgs function is nil">>
    ELSE IF arg = "osExit" THEN <<"osExit function is nil">>
    ELSE IF arg = "out" THEN <<"out writer is nil">>
    ELSE <<"errOut writer is nil">>

\* The command line: parseArgs wants exactly a URL and a known command.
allCommands == {"up", "up-one", "down", "status", "version"}
ArgsGiven ==
    {<<>>, <<"url">>, <<"url", "bogus">>, <<"url", "up", "more">>}
        \cup {<<"url", c>> : c \in allCommands}

\* fmt's %q for a string without characters to escape: the string in
\* double quotes.
Quoted(s) == "\"" \o s \o "\""

parseArgsErr(args) ==
    IF Len(args) # 2 THEN <<"wrong number of arguments">>
    ELSE IF args[2] \notin allCommands
    THEN <<"unknown command: " \o Quoted(args[2])>>
    ELSE nil

connectErr == <<DBError>>
closeErr == <<DBError>>
createMigrationsTableErr ==
    <<"failed to create migrations table if not exists", DBError>>

\* One entry of hostCalls: the call, whether it returned without error, the
\* code given to osExit (0 for the other calls) and the error errExit wrote.
HostCall(op, ok, code, e) == [op |-> op, ok |-> ok, code |-> code, err |-> e]

\* The exit code of the command that ran (errExitCode + 5..9).
commandExitCode_NoUpOne(p) ==
    IF cmd[p] = "up" THEN 5
    ELSE IF cmd[p] = "down" THEN 7
    ELSE IF cmd[p] = "status" THEN 8
    ELSE 9
commandExitCode(p) ==
    IF cmd[p] = "up" THEN (IF limit[p] = 1 THEN 6 ELSE 5)
    ELSE IF cmd[p] = "down" THEN 7
    ELSE IF cmd[p] = "status" THEN 8
    ELSE 9

\* errExit(code, e) after the calls `made`: it writes the usage and e to
\* errOut and calls osExit.  When osExit returns, the closure returns: to
\* `back`, where its deferred call runs if there is one.  os.Exit does not
\* return: the process ends there and no deferred call runs.
errExit(p, made, code, e, back) ==
    /\ hostCalls' = [hostCalls EXCEPT ![p] =
           @ \o made \o <<HostCall("osExit", TRUE, code, e)>>]
    /\ pc' = [pc EXCEPT ![p] = IF osExitReturns[p] THEN back ELSE "terminated"]

cmdVars == <<limit, dbVersion, idx, nbAppliedMigrations, fnErr, output, calls>>

\* newGosmig: it refuses an empty registry, then a nil argument
\* (connectToDB, getArgs, osExit, out, errOut, in this order; `missing` is
\* the first that is nil), then a registry validateMigrations rejects;
\* otherwise it returns the closure.  The order in which validateMigrations
\* walks its map matters only when it is reached.
newGosmig(p) ==
    /\ pc[p] = "new"
    /\ \E missing \in {"none", "connectToDB", "getArgs", "osExit", "out", "errOut"} :
       \E order \in IF missing = "none"
                    THEN MapOrders(DuplicatedVersions(migrations[p]))
                    ELSE {<<>>} :
         LET e == IF Len(migrations[p]) = 0 THEN noMigrationsErr
                  ELSE IF missing # "none" THEN nilArgErr(missing)
                  ELSE validateMigrations(migrations[p], order) IN
         /\ err' = [err EXCEPT ![p] = e]
         /\ pc' = [pc EXCEPT ![p] = IF e = nil THEN "ready" ELSE "rejected"]
         /\ \E returns \in IF e = nil THEN BOOLEAN ELSE {TRUE} :
                osExitReturns' = [osExitReturns EXCEPT ![p] = returns]
    /\ UNCHANGED <<migrations, cmd, hostCalls>>
    /\ UNCHANGED cmdVars
    /\ UNCHANGED dbVars

\* The closure is called: parseArgs(getArgs()).
parseArgs(p) ==
    /\ pc[p] = "ready"
    /\ \E args \in ArgsGiven :
         IF parseArgsErr(args) # nil
         THEN /\ errExit(p, <<>>, 1, parseArgsErr(args), "returned")
              /\ UNCHANGED cmd
         ELSE /\ cmd' = [cmd EXCEPT ![p] = args[2]]
              /\ pc' = [pc EXCEPT ![p] = "connect"]
              /\ UNCHANGED hostCalls
    /\ UNCHANGED <<migrations, err, osExitReturns>>
    /\ UNCHANGED cmdVars
    /\ UNCHANGED dbVars

\* connectToDB; from its success on db.Close is deferred.
connectToDB(p) ==
    /\ pc[p] = "connect"
    /\ \E ok \in BOOLEAN :
         IF ok
         THEN /\ hostCalls' = [hostCalls EXCEPT ![p] =
                     Append(@, HostCall("connectToDB", TRUE, 0, nil))]
              /\ pc' = [pc EXCEPT ![p] = "create"]
         ELSE errExit(p, <<HostCall("connectToDB", FALSE, 0, connectErr)>>,
                      2, connectErr, "returned")
    /\ UNCHANGED <<migrations, cmd, err, osExitReturns>>
    /\ UNCHANGED cmdVars
    /\ UNCHANGED dbVars

\* createMigrationsTableIfNotExists: CREATE TABLE IF NOT EXISTS leaves the
\* rows of a table that is there.  Then the command is run.
createMigrationsTableIfNotExists(p) ==
    /\ pc[p] = "create"
    /\ \E ok \in BOOLEAN :
         IF ok
         THEN /\ hostCalls' = [hostCalls EXCEPT ![p] =
                     Append(@, HostCall("createMigrationsTable", TRUE, 0, nil))]
              /\ pc' = [pc EXCEPT ![p] = "idle"]
         ELSE errExit(p, <<HostCall("createMigrationsTable", FALSE, 0,
                                    createMigrationsTableErr)>>,
                      4, createMigrationsTableErr, "close")
    /\ UNCHANGED <<migrations, cmd, err, osExitReturns>>
    /\ UNCHANGED cmdVars
    /\ UNCHANGED dbVars

\* The switch of the closure: the command parseArgs returned is run.
runCommand(p) ==
    \/ cmd[p] = "up" /\ runCmdUp(p, 0)
    \/ cmd[p] = "up-one" /\ runCmdUp(p, 1)
    \/ cmd[p] = "down" /\ runCmdDown(p)
    \/ cmd[p] = "status" /\ runCmdStatus(p)
    \/ cmd[p] = "version" /\ runCmdVersion(p)

\* The command returned: errExit with its code when it returned an error.
commandReturned(p) ==
    /\ pc[p] = "done"
    /\ IF err[p] # nil
       THEN errExit(p, <<>>, commandExitCode(p), err[p], "close")
       ELSE /\ pc' = [pc EXCEPT ![p] = "close"]
            /\ UNCHANGED hostCalls
    /\ UNCHANGED <<migrations, cmd, err, osExitReturns>>
    /\ UNCHANGED cmdVars
    /\ UNCHANGED dbVars

\* The deferred call: db.Close, and errExit with code 3 when it fails.
deferredClose(p) ==
    /\ pc[p] = "close"
    /\ \E ok \in BOOLEAN :
         IF ok
         THEN /\ hostCalls' = [hostCalls EXCEPT ![p] =
                     Append(@, HostCall("Close", TRUE, 0, nil))]
              /\ pc' = [pc EXCEPT ![p] = "returned"]
         ELSE errExit(p, <<HostCall("Close", FALSE, 0, closeErr)>>,
                      3, closeErr, "returned")
    /\ UNCHANGED <<migrations, cmd, err, osExitReturns>>
    /\ UNCHANGED cmdVars
    /\ UNCHANGED dbVars

\* newGosmig is given any registry; the gosmig table holds any rows (none
\* matter when the registry is refused).
InitRun ==
    /\ \E migs \in AnyRegistries : migrations = [p \in Procs |-> migs]
    /\ ledger \in IF Len(migrations[1]) = 0 \/ ~validateMigrationsOK(migrations[1])
                  THEN {{}}
                  ELSE SUBSET (1..MaxVersionRun)
    /\ schema = ledger
    /\ tx = [p \in Procs |-> NoTx]
    /\ pc = [p \in Procs |-> "new"]
    /\ cmd = [p \in Procs |-> "none"]
    /\ limit = [p \in Procs |-> 0]
    /\ dbVersion = [p \in Procs |-> 0]
    /\ idx = [p \in Procs |-> 0]
    /\ nbAppliedMigrations = [p \in Procs |-> 0]
    /\ fnErr = [p \in Procs |-> nil]
    /\ err = [p \in Procs |-> nil]
    /\ output = [p \in Procs |-> <<>>]
    /\ calls = [p \in Procs |-> <<>>]
    /\ osExitReturns = [p \in Procs |-> TRUE]
    /\ hostCalls = [p \in Procs |-> <<>>]

StepRun(p) ==
    \/ newGosmig(p)
    \/ parseArgs(p)
    \/ connectToDB(p)
    \/ createMigrationsTableIfNotExists(p)
    \/ runCommand(p)
    \/ migrateUpGuard(p)
    \/ migrateUpAction(p)
    \/ migrateUpInsert(p)
    \/ migrateDownGuard(p)
    \/ migrateDownAction(p)
    \/ migrateDownDelete(p)
    \/ executeInTxBegin(p)
    \/ executeInTxCommit(p)
    \/ executeInTxRollback(p)
    \/ commandReturned(p)
    \/ deferredClose(p)

\* One process is built with newGosmig and its closure is called once.
NextRun == StepRun(1)

SpecRun == InitRun /\ [][NextRun]_vars

\* newGosmig is given a valid registry of up to MaxVersionConc versions, in
\* any order, and its closure is called once, against a gosmig table that
\* holds any rows.
InitInvoke ==
    /\ \E migs \in RegistriesConc : migrations = [p \in Procs |-> migs]
    /\ ledger \in SUBSET (1..MaxVersionConc)
    /\ schema = ledger
    /\ tx = [p \in Procs |-> NoTx]
    /\ pc = [p \in Procs |-> "new"]
    /\ cmd = [p \in Procs |-> "none"]
    /\ limit = [p \in Procs |-> 0]
    /\ dbVersion = [p \in Procs |-> 0]
    /\ idx = [p \in Procs |-> 0]
    /\ nbAppliedMigrations = [p \in Procs |-> 0]
    /\ fnErr = [p \in Procs |-> nil]
    /\ err = [p \in Procs |-> nil]
    /\ output = [p \in Procs |-> <<>>]
    /\ calls = [p \in Procs |-> <<>>]
    /\ osExitReturns = [p \in Procs |-> TRUE]
    /\ hostCalls = [p \in Procs |-> <<>>]

SpecInvoke == InitInvoke /\ [][NextRun]_vars

-----------------------------------------------------------------------------
(* The two sorts on their own                                             *)

\* sortMigrationsAsc and sortMigrationsDesc sort the slice they are given
\* in place; here they are applied, in any sequence, to every valid
\* registry in every order of its definitions.
SortAsc(p) ==
    /\ pc[p] = "idle"
    /\ migrations' = [migrations EXCEPT ![p] = sortMigrationsAsc(@)]
    /\ UNCHANGED <<pc, cmd, err>>
    /\ UNCHANGED cmdVars
    /\ UNCHANGED dbVars
    /\ UNCHANGED hostVars

SortDesc(p) ==
    /\ pc[p] = "idle"
    /\ migrations' = [migrations EXCEPT ![p] = sortMigrationsDesc(@)]
    /\ UNCHANGED <<pc, cmd, err>>
    /\ UNCHANGED cmdVars
    /\ UNCHANGED dbVars
    /\ UNCHANGED hostVars

NextSort == SortAsc(1) \/ SortDesc(1)

SpecSort == Init /\ [][NextSort]_vars

-----------------------------------------------------------------------------
(* The contexts the calls of a unit are made under (context.WithTimeout)   *)

\* A context is the chain of the deadlines it is under, outermost first:
\* for each the name the code gives the context and its duration in base
\* timeouts (config.Timeout).  A deadline that expires, or its cancel
\* function, cancels the context and every context derived from it.
Background == <<>>
WithTimeout(ctx, name, d) == Append(ctx, [name |-> name, d |-> d])

\* executeInTx: the context it makes (txCtx), the context it gives BeginTx
\* and the context it gives fn.
executeInTxCtx(ctx) == WithTimeout(ctx, "txCtx", 2)
executeInTxBeginCtx(ctx) == executeInTxCtx(ctx)
executeInTxFnCtx(ctx) == ctx

\* executeNoTx: the context it makes (fnCtx) and the context it gives fn.
executeNoTxCtx(ctx) == WithTimeout(ctx, "fnCtx", 2)
executeNoTxFnCtx(ctx) == executeNoTxCtx(ctx)

\* The contexts of the guard read (getDBVersion), of the migration's Up or
\* Down (migrateUp, migrateDown) and of the insert or delete, each made
\* from the context fn was given.
getDBVersionCtx(ctx) == WithTimeout(ctx, "ctxGetDBVersion", 1)
migCtx(ctx) == WithTimeout(ctx, "migCtx", 1)
versionCtx(ctx) == WithTimeout(ctx, "versionCtx", 1)

\* The context of the unit of m, made by its executor from the context of
\* the command, and the context the executor gives the unit's fn.
UnitCtx(m, ctx) ==
    IF ~m.UpDown.nil THEN executeInTxCtx(ctx) ELSE executeNoTxCtx(ctx)
FnCtx(m, ctx) ==
    IF ~m.UpDown.nil THEN executeInTxFnCtx(ctx) ELSE executeNoTxFnCtx(ctx)

\* The context of the call p is about to make for its candidate (the
\* command's own context is context.Background()); Commit and Rollback
\* take no context.
CallCtx(p) ==
    IF pc[p] = "begin" THEN executeInTxBeginCtx(Background)
    ELSE IF pc[p] = "guard" THEN getDBVersionCtx(FnCtx(Candidate(p), Background))
    ELSE IF pc[p] = "action" THEN migCtx(FnCtx(Candidate(p), Background))
    ELSE versionCtx(FnCtx(Candidate(p), Background))

-----------------------------------------------------------------------------
(* What the claims speak of                                                *)

Max2(a, b) == IF a >= b THEN a ELSE b
Min2(a, b) == IF a <= b THEN a ELSE b

SetMin(S) == CHOOSE x \in S : \A y \in S : x <= y

\* The elements of a set of versions as an ascending sequence.
RECURSIVE Ascending(_)
Ascending(S) ==
    IF S = {} THEN <<>> ELSE <<SetMin(S)>> \o Ascending(S \ {SetMin(S)})

IsPrefix(s, t) == Len(s) <= Len(t) /\ \A i \in 1..Len(s) : s[i] = t[i]

Last(s) == s[Len(s)]

\* The versions of the "Applied migration version" lines p wrote, in order.
IsAppliedLine(line) == \E v \in Versions : line = AppliedLine(v)
AppliedSeq(p) ==
    LET lines == SelectSeq(output[p], IsAppliedLine) IN
    [i \in 1..Len(lines) |-> CHOOSE v \in Versions : lines[i] = AppliedLine(v)]

\* The registry versions pending at p's snapshot, lowest first.
PendingAsc(p) ==
    Ascending({v \in VersionsOf(migrations[p]) : v > dbVersion[p]})

\* Whether the registry of p runs version v in a transaction.
IsTx(p, v) ==
    \E i \in 1..Len(migrations[p]) :
        migrations[p][i].Version = v /\ ~migrations[p][i].UpDown.nil

IsCall(c, op, v, ok) == c.op = op /\ c.version = v /\ c.ok = ok

\* Call k of p ends a unit that completed: Commit returned nil, or without
\* a transaction the ledger mutation did.
CompletesUnit(p, k) ==
    LET c == calls[p][k] IN
    \/ c.op = "Commit" /\ c.ok
    \/ c.op \in {"insert", "delete"} /\ c.ok /\ ~IsTx(p, c.version)

CompletedUnits(p) ==
    LET ks == SelectSeq([k \in 1..Len(calls[p]) |-> k],
                        LAMBDA k : CompletesUnit(p, k)) IN
    [i \in 1..Len(ks) |-> calls[p][ks[i]].version]

\* Call k of p completes an up unit all of whose steps were made, in order:
\* (BeginTx,) guard read, Up, insert (, Commit).
WholeUpUnit(p, k) ==
    LET v == calls[p][k].version
        i == IF IsTx(p, v) THEN k - 1 ELSE k IN
    /\ i >= 3
    /\ IsCall(calls[p][i], "insert", v, TRUE)
    /\ IsCall(calls[p][i - 1], "up", v, TRUE)
    /\ IsCall(calls[p][i - 2], "getDBVersion", v, TRUE)
    /\ IsTx(p, v) => i >= 4 /\ IsCall(calls[p][i - 3], "BeginTx", v, TRUE)

NbCalls(p, op) == Cardinality({k \in 1..Len(calls[p]) : calls[p][k].op = op})

RunCmdUpReturned(p) == cmd[p] = "up" /\ pc[p] = "done"
ApplyAllSucceeded(p) == RunCmdUpReturned(p) /\ limit[p] = 0 /\ err[p] = nil

-----------------------------------------------------------------------------
(* C1 *)

\* C1 as stated: with registry versions {1..N} and the ledger at version V,
\* a successful apply-all runs exactly max(0, N-V) Up functions and leaves
\* the ledger's current version at N.
C1_AsStated ==
    \A p \in Procs :
        LET N == Len(migrations[p])
            V == dbVersion[p] IN
        (ApplyAllSucceeded(p) /\ VersionsOf(migrations[p]) = 1..N) =>
            /\ NbCalls(p, "up") = Max2(0, N - V)
            /\ selectDBVersion(ledger) = N

\* C1, amended: with registry versions {1..N} and the ledger at version V,
\* a successful apply-all runs exactly max(0, N-V) Up functions, counts as
\* many applied migrations, and leaves the ledger's current version at
\* max(N, V): at N when V <= N, and where it was when V > N.
C1_ApplyAll ==
    \A p \in Procs :
        LET N == Len(migrations[p])
            V == dbVersion[p] IN
        (ApplyAllSucceeded(p) /\ VersionsOf(migrations[p]) = 1..N) =>
            /\ NbCalls(p, "up") = Max2(0, N - V)
            /\ nbAppliedMigrations[p] = Max2(0, N - V)
            /\ selectDBVersion(ledger) = Max2(N, V)

\* Registry {1,2,3} on a ledger at version 1: apply-all ran two Up functions.
C1_Witness ==
    /\ ApplyAllSucceeded(1)
    /\ VersionsOf(migrations[1]) = 1..3
    /\ dbVersion[1] = 1
    /\ NbCalls(1, "up") = 2
    /\ selectDBVersion(ledger) = 3

-----------------------------------------------------------------------------
(* C2 *)

\* C2: runCmdUp applies the pending migrations lowest version first whatever
\* the order of the slice it was given; it writes one "Applied migration
\* version v" line per completed unit, in the order the units completed and
\* only once the unit's guard read, Up, insert (and Commit) have all
\* returned nil; a successful run that applied k > 0 migrations ends with
\* "k migration(s) applied", k being the number of those lines; and with
\* registry {1,2,3} on an empty ledger apply-all leaves the ledger {1,2,3}.
C2_AscendingOneLinePerUnit ==
    \A p \in Procs :
        cmd[p] = "up" =>
            /\ IsPrefix(AppliedSeq(p), PendingAsc(p))
            /\ AppliedSeq(p) = CompletedUnits(p)
            /\ \A k \in 1..Len(calls[p]) :
                   CompletesUnit(p, k) => WholeUpUnit(p, k)
            /\ (pc[p] = "done" /\ err[p] = nil /\ nbAppliedMigrations[p] > 0) =>
                   /\ Len(output[p]) = Len(AppliedSeq(p)) + 1
                   /\ Last(output[p]) = SummaryLine(Len(AppliedSeq(p)))
            /\ (ApplyAllSucceeded(p) /\ dbVersion[p] = 0
                    /\ VersionsOf(migrations[p]) = {1, 2, 3}) =>
                   ledger = {1, 2, 3}

\* Registry {1,2,3}, empty ledger: three lines ascending, then the summary.
C2_Witness ==
    /\ ApplyAllSucceeded(1)
    /\ dbVersion[1] = 0
    /\ output[1] = <<AppliedLine(1), AppliedLine(2), AppliedLine(3),
                     SummaryLine(3)>>
    /\ ledger = {1, 2, 3}

-----------------------------------------------------------------------------
(* C3 *)

\* The guard reads of p: the getDBVersion calls made for a candidate.
GuardReads(p) ==
    {k \in 1..Len(calls[p]) :
        /\ calls[p][k].op = "getDBVersion"
        /\ calls[p][k].version # 0
        /\ calls[p][k].ok}

\* The migration whose guard read was call k of p aborted: its Up or Down
\* function was not called and nothing was written, the only call that
\* follows is the Rollback of its transaction, which holds no write, and
\* the command returns the conflict error.
AbortedAt(p, k) ==
    /\ \A j \in (k + 1)..Len(calls[p]) : calls[p][j].op = "Rollback"
    /\ Len(calls[p]) <= k + 1
    /\ pc[p] \in {"rollback", "done"}
    /\ tx[p].open => /\ tx[p].rows = {} /\ tx[p].gone = {}
                     /\ tx[p].made = {} /\ tx[p].undone = {}
    /\ pc[p] = "done" =>
           \E i \in 1..Len(err[p]) :
               err[p][i] = (IF cmd[p] = "up" THEN errDBVersionChangedUp
                            ELSE errDBVersionChangedDown)

\* C3 as stated: whenever the version the guard reads differs from the
\* snapshot the command selected the candidate with, the migration aborts.
C3_AsStated ==
    \A p \in Procs : \A k \in GuardReads(p) :
        calls[p][k].val # dbVersion[p] => AbortedAt(p, k)

\* C3, amended: whenever the version the guard reads makes the candidate
\* ineligible (up: candidate version <= version read; down: candidate
\* version > version read), the migration aborts: in transactional mode no
\* ledger row is written and no schema change of the attempt is committed.
\* A version read that differs from the snapshot but leaves the candidate
\* eligible does not abort it.
C3_GuardAborts ==
    \A p \in Procs : \A k \in GuardReads(p) :
        LET c == calls[p][k] IN
        (\/ cmd[p] = "up" /\ c.version <= c.val
         \/ cmd[p] = "down" /\ c.version > c.val) => AbortedAt(p, k)

\* A transactional up whose guard read the candidate's own version, just
\* applied by the other process, was rolled back.
C3_Witness ==
    /\ RunCmdUpReturned(1)
    /\ idx[1] # 0 /\ IsTx(1, CandidateVersion(1))
    /\ Len(calls[1]) >= 2
    /\ Last(calls[1]).op = "Rollback"
    /\ LET c == calls[1][Len(calls[1]) - 1] IN
           /\ c.op = "getDBVersion" /\ c.ok
           /\ c.version = CandidateVersion(1)
           /\ c.version <= c.val
           /\ c.val # dbVersion[1]
    /\ CandidateVersion(1) \in ledger

-----------------------------------------------------------------------------
(* C4 *)

\* C4 as stated: a rollback-one that finds the ledger at version V > 0
\* removes from the ledger exactly the row of V, its highest version, and
\* nothing else; at V = 0 it calls no Down function, begins no transaction,
\* leaves the ledger as it is and reports that there is nothing to roll back.
C4_AsStated ==
    [][\A p \in Procs :
          (pc[p] # "done" /\ pc'[p] = "done" /\ cmd'[p] = "down"
               /\ err'[p] = nil) =>
              IF dbVersion'[p] > 0
              THEN /\ dbVersion'[p] \in ledger
                   /\ ledger' = ledger \ {dbVersion'[p]}
              ELSE /\ ledger' = ledger
                   /\ Len(calls'[p]) = 1
                   /\ output'[p] = <<NoRollbackLine>>]_vars

-----------------------------------------------------------------------------
(* C5 *)

\* The Up function of p's transactional candidate has returned an error
\* (the last call before the Rollback, if that was made already).
TxUpFailed(p) ==
    /\ cmd[p] = "up" /\ idx[p] # 0 /\ IsTx(p, CandidateVersion(p))
    /\ \E k \in 1..Len(calls[p]) :
           /\ IsCall(calls[p][k], "up", CandidateVersion(p), FALSE)
           /\ \A j \in (k + 1)..Len(calls[p]) : calls[p][j].op = "Rollback"

\* C5: in a transactional apply whose Up function fails, no step from
\* BeginTx to the return of the command changes the ledger or the schema
\* (what the Up function changed inside the transaction is rolled back),
\* the transaction is closed by Rollback, and the error the command returns
\* wraps the Up function's own error.
C5_TxActionFailure ==
    [][\A p \in Procs :
          /\ (cmd[p] = "up" /\ tx[p].open /\ pc[p] # "commit") =>
                 ledger' = ledger /\ schema' = schema
          /\ TxUpFailed(p)' =>
                 /\ ledger' = ledger /\ schema' = schema
                 /\ pc'[p] \in {"rollback", "done"}
                 /\ pc'[p] = "done" =>
                        /\ ~tx'[p].open
                        /\ Last(calls'[p]).op = "Rollback"
                        /\ err'[p] = executeInTxErr(inTxErr(
                                         upErr(CandidateVersion(p)')))
                        /\ Last(err'[p]) = ActionError
                        /\ CandidateVersion(p)' \notin ledger'
                        /\ CandidateVersion(p)' \notin schema']_vars

\* A transactional Up function changed the schema inside its transaction
\* and returned an error; the transaction was rolled back and the command
\* returned the wrapped error.
C5_Witness ==
    /\ RunCmdUpReturned(1)
    /\ TxUpFailed(1)
    /\ Last(calls[1]).op = "Rollback"
    /\ Last(err[1]) = ActionError
    /\ CandidateVersion(1) \notin schema

-----------------------------------------------------------------------------
(* C6 *)

\* C6: for every transactional migration version v of the registry, in
\* every state where no transaction is open, the schema holds v's Up effect
\* exactly when the ledger holds v's row, whatever commands ran before and
\* wherever they failed.
C6_TxAtomic ==
    \A p \in Procs : \A v \in VersionsOf(migrations[p]) :
        (IsTx(p, v) /\ \A q \in Procs : ~tx[q].open) =>
            (v \in schema <=> v \in ledger)

\* A run committed one transactional migration and failed at the Commit of
\* the next one.
C6_Witness ==
    /\ RunCmdUpReturned(1)
    /\ Len(AppliedSeq(1)) >= 1 /\ IsTx(1, AppliedSeq(1)[1])
    /\ Last(calls[1]).op = "Commit" /\ ~Last(calls[1]).ok
    /\ AppliedSeq(1)[1] \in ledger
    /\ CandidateVersion(1) \notin ledger

-----------------------------------------------------------------------------
(* C7 *)

\* Call k of p failed: it returned an error, or it is a guard read that
\* refuses the candidate.  (The error of a Rollback is discarded.)
FailedCall(p, k) ==
    LET c == calls[p][k] IN
    \/ ~c.ok /\ c.op # "Rollback"
    \/ k \in GuardReads(p) /\ cmd[p] = "up" /\ c.version <= c.val
    \/ k \in GuardReads(p) /\ cmd[p] = "down" /\ c.version > c.val

\* C7: in apply the first failure, a guard conflict included, ends the run:
\* after the failing call only the Rollback of its transaction is made, no
\* later candidate is tried, the command returns an error without a
\* closing line, and every migration the run had applied before is still
\* in the ledger with its schema effect.
C7_FirstFailureAborts ==
    \A p \in Procs :
        cmd[p] = "up" =>
            /\ \A k \in 1..Len(calls[p]) :
                   FailedCall(p, k) =>
                       /\ \A j \in (k + 1)..Len(calls[p]) :
                              calls[p][j].op = "Rollback"
                       /\ Len(calls[p]) <= k + 1
                       /\ pc[p] \in {"rollback", "done"}
                       /\ pc[p] = "done" => err[p] # nil
            /\ (pc[p] = "done" /\ err[p] # nil) =>
                   /\ \E k \in 1..Len(calls[p]) : FailedCall(p, k)
                   /\ \A i \in 1..Len(output[p]) : IsAppliedLine(output[p][i])
            /\ \A i \in 1..Len(AppliedSeq(p)) :
                   AppliedSeq(p)[i] \in ledger /\ AppliedSeq(p)[i] \in schema

\* A run applied a migration and then stopped at a guard conflict on the
\* next one, which the other process had applied in between.
C7_Witness ==
    /\ RunCmdUpReturned(1) /\ err[1] # nil
    /\ Len(AppliedSeq(1)) >= 1
    /\ \E k \in GuardReads(1) : calls[1][k].version <= calls[1][k].val
    /\ AppliedSeq(1)[1] \in ledger

-----------------------------------------------------------------------------
(* C8 *)

\* Another process has raised the committed version to the candidate's
\* version or above while p is still inside the candidate's unit (p chose
\* the candidate because its version was above p's snapshot, and p has not
\* made its own row durable yet).
RaisedUnderneath(p) ==
    /\ cmd[p] = "up" /\ idx[p] # 0
    /\ pc[p] \in {"begin", "guard", "action", "mutate", "commit"}
    /\ selectDBVersion(ledger) >= CandidateVersion(p)

\* With a transaction, p's Up function and row stay inside the transaction
\* while the version is raised underneath: nothing of them is durable.
TxCandidateNotDurable ==
    \A p \in Procs :
        (RaisedUnderneath(p) /\ IsTx(p, CandidateVersion(p))) =>
            /\ pc[p] # "commit"
            /\ CandidateVersion(p) \notin tx[p].rows

\* C8 as stated: whenever the version is raised to the candidate's version
\* or above between p's snapshot and p's insert, p's run has made no
\* durable change for the candidate: its Up function has not completed on
\* the database itself and no row of p's is durable; with and without a
\* transaction.
C8_AsStated ==
    \A p \in Procs :
        RaisedUnderneath(p) =>
            /\ ~(/\ ~IsTx(p, CandidateVersion(p))
                 /\ IsCall(Last(calls[p]), "up", CandidateVersion(p), TRUE))
            /\ IsTx(p, CandidateVersion(p)) =>
                   pc[p] # "commit" /\ CandidateVersion(p) \notin tx[p].rows

-----------------------------------------------------------------------------
(* C9 *)

\* Every registry version is at or below the version p read at its start.
FullyApplied(p) ==
    /\ cmd[p] = "up" /\ calls[p] # <<>> /\ calls[p][1].ok
    /\ \A v \in VersionsOf(migrations[p]) : v <= dbVersion[p]

\* C9: apply-all on a registry whose versions are all at or below the
\* current version writes only "No migrations to apply" and returns nil
\* after its single read: no BeginTx, no Up function, no insert and no
\* delete is called, and the step leaves the ledger and the schema as they
\* were, so that a second run starts from the same ledger as the first.
C9_NoWritesWhenUpToDate ==
    [][\A p \in Procs :
          (pc[p] = "idle" /\ FullyApplied(p)' /\ limit'[p] = 0) =>
              /\ pc'[p] = "done"
              /\ err'[p] = nil
              /\ output'[p] = <<NoMigrationsLine>>
              /\ Len(calls'[p]) = 1 /\ calls'[p][1].op = "getDBVersion"
              /\ nbAppliedMigrations'[p] = 0
              /\ ledger' = ledger /\ schema' = schema
              /\ tx' = tx]_vars

\* apply-all returned on a non-empty ledger at or above every registry
\* version.
C9_Witness ==
    /\ RunCmdUpReturned(1) /\ limit[1] = 0
    /\ FullyApplied(1)
    /\ dbVersion[1] >= 1
    /\ output[1] = <<NoMigrationsLine>>

-----------------------------------------------------------------------------
(* C10 *)

\* C10: apply with limit L > 0 never applies more than L migrations; what
\* it has applied is always the lowest pending versions, in order; and a
\* run that returns nil has applied exactly min(L, number of registry
\* versions above the snapshot) of them.
C10_LimitStops ==
    \A p \in Procs :
        (cmd[p] = "up" /\ limit[p] > 0) =>
            /\ Len(AppliedSeq(p)) <= limit[p]
            /\ nbAppliedMigrations[p] = Len(AppliedSeq(p))
            /\ IsPrefix(AppliedSeq(p), PendingAsc(p))
            /\ NbCalls(p, "up") <= limit[p]
            /\ (pc[p] = "done" /\ err[p] = nil) =>
                   Len(AppliedSeq(p)) = Min2(limit[p], Len(PendingAsc(p)))

\* A run with limit 2 stopped after two of three pending migrations, and a
\* run with limit 1 leaves more than one pending.
C10_Witness ==
    /\ RunCmdUpReturned(1) /\ err[1] = nil
    /\ limit[1] = 2
    /\ Len(PendingAsc(1)) = 3
    /\ Len(AppliedSeq(1)) = 2
    /\ output[1] = <<AppliedLine(PendingAsc(1)[1]),
                     AppliedLine(PendingAsc(1)[2]), SummaryLine(2)>>

-----------------------------------------------------------------------------
(* C11 *)

\* C11: one invocation of runCmdDown rolls back one step at most: it calls
\* at most one Down function, at most one deleteDBVersion and begins at
\* most one transaction, writes at most one line, and never calls an Up
\* function or insertDBVersion, whatever the registry and the ledger hold.
C11_OneStepDown ==
    \A p \in Procs :
        cmd[p] = "down" =>
            /\ NbCalls(p, "down") <= 1
            /\ NbCalls(p, "delete") <= 1
            /\ NbCalls(p, "BeginTx") <= 1
            /\ NbCalls(p, "up") = 0
            /\ NbCalls(p, "insert") = 0
            /\ Len(output[p]) <= 1
            /\ \A k \in 1..Len(calls[p]) :
                   calls[p][k].op \in {"down", "delete"} =>
                       calls[p][k].version = CandidateVersion(p)

\* runCmdDown returned nil after one Down and one delete while a lower
\* version of the registry is still in the ledger.
C11_Witness ==
    /\ cmd[1] = "down" /\ pc[1] = "done" /\ err[1] = nil
    /\ NbCalls(1, "down") = 1 /\ NbCalls(1, "delete") = 1
    /\ \E v \in VersionsOf(migrations[1]) :
           v < CandidateVersion(1) /\ v \in ledger
    /\ CandidateVersion(1) \notin ledger

-----------------------------------------------------------------------------
(* C12 *)

\* The status runCmdStatus reports for version v on the committed ledger.
ReportedApplied(v) ==
    StatusLine([Version |-> v], selectDBVersion(ledger))
        = StatusLine([Version |-> v], v)

\* This step is the one in which process p's up (down) of version v
\* commits: its Commit returns nil, or without a transaction its ledger
\* mutation does.
CommitsUnit(p, command, mutation, v) ==
    /\ cmd[p] = command
    /\ Len(calls'[p]) = Len(calls[p]) + 1
    /\ LET c == Last(calls'[p]) IN
           /\ c.version = v /\ c.ok
           /\ \/ c.op = "Commit"
              \/ c.op = mutation /\ ~IsTx(p, v)

\* C12 as stated: the reported status of a registry version changes from
\* PENDING to APPLIED only in the step in which the up of that same version
\* commits, and from APPLIED to PENDING only in the step in which the down
\* of that same version commits.
C12_AsStated ==
    [][\A v \in VersionsOf(migrations[1]) :
          /\ (~ReportedApplied(v) /\ ReportedApplied(v)') =>
                 \E p \in Procs : CommitsUnit(p, "up", "insert", v)
          /\ (ReportedApplied(v) /\ ~ReportedApplied(v)') =>
                 \E p \in Procs : CommitsUnit(p, "down", "delete", v)]_vars

-----------------------------------------------------------------------------
(* C13 *)

Reverse(s) == [i \in 1..Len(s) |-> s[Len(s) + 1 - i]]

\* The versions of the registry of p, highest first.
RegistryDesc(p) == Reverse(Ascending(VersionsOf(migrations[p])))

\* C13: a runCmdStatus that returns nil has read the current version once
\* and made no other call; after the header it has written exactly one line
\* per registry entry, highest version first whatever the order of the
\* slice, each marked APPLIED exactly when its version <= the version read
\* and PENDING otherwise.
C13_StatusTable ==
    \A p \in Procs :
        (cmd[p] = "status" /\ pc[p] = "done") =>
            /\ Len(calls[p]) = 1 /\ calls[p][1].op = "getDBVersion"
            /\ err[p] = nil <=> calls[p][1].ok
            /\ err[p] # nil => output[p] = <<>>
            /\ err[p] = nil =>
                   /\ Len(output[p]) = Len(migrations[p]) + 1
                   /\ output[p][1] = StatusHeader
                   /\ \A i \in 1..Len(migrations[p]) :
                          LET v == RegistryDesc(p)[i] IN
                          output[p][i + 1] =
                              ToString(v) \o Spaces(9) \o " " \o
                                  (IF v <= calls[p][1].val
                                   THEN "[x] APPLIED " ELSE "[ ] PENDING ")

\* Status of registry {1,2,3} on a ledger at version 2: 3 is pending, 2 and
\* 1 are applied.
C13_Witness ==
    /\ cmd[1] = "status" /\ pc[1] = "done" /\ err[1] = nil
    /\ calls[1][1].val = 2
    /\ output[1] = <<"VERSION    STATUS      ",
                     "3          [ ] PENDING ",
                     "2          [x] APPLIED ",
                     "1          [x] APPLIED ">>

-----------------------------------------------------------------------------
(* C14 *)

\* C14: runCmdStatus and runCmdVersion only read: the one call they make is
\* getDBVersion, they begin no transaction and call no Up or Down function,
\* no insert and no delete, and the ledger, the schema and the transactions
\* are the same after them as before, whether they return nil or an error.
C14_ReadOnly ==
    [][\A p \in Procs :
          /\ (pc[p] = "idle" /\ cmd'[p] \in {"status", "version"}) =>
                 /\ pc'[p] = "done"
                 /\ Len(calls'[p]) = 1
                 /\ calls'[p][1].op = "getDBVersion"
                 /\ ledger' = ledger /\ schema' = schema /\ tx' = tx
          /\ cmd[p] \in {"status", "version"} =>
                 /\ pc[p] = "done"
                 /\ ledger' = ledger /\ schema' = schema /\ tx' = tx]_vars

\* version returned nil having written the version of a ledger at version
\* 2, which is as it was.
C14_Witness ==
    /\ cmd[1] = "version" /\ pc[1] = "done" /\ err[1] = nil
    /\ output[1] = VersionLines(2)
    /\ 2 \in ledger /\ schema = ledger

-----------------------------------------------------------------------------
(* C19 *)

\* s and t hold the same elements, each as often in one as in the other.
IsPermutation(s, t) ==
    /\ Len(s) = Len(t)
    /\ \A i \in 1..Len(s) :
           Cardinality({j \in 1..Len(s) : s[j] = s[i]})
               = Cardinality({j \in 1..Len(t) : t[j] = s[i]})

\* C19: for every valid registry, in whatever order the slice is,
\* sortMigrationsDesc gives the reverse of what sortMigrationsAsc gives,
\* both are permutations of the slice and so hold its version set, and the
\* one is in strictly ascending, the other in strictly descending order.
C19_SortsAreReverses ==
    \A p \in Procs :
        LET migs == migrations[p]
            asc == sortMigrationsAsc(migs)
            desc == sortMigrationsDesc(migs) IN
        /\ desc = Reverse(asc)
        /\ asc = Reverse(desc)
        /\ IsPermutation(migs, asc) /\ IsPermutation(migs, desc)
        /\ VersionsOf(asc) = VersionsOf(migs)
        /\ VersionsOf(desc) = VersionsOf(migs)
        /\ \A i \in 1..(Len(migs) - 1) :
               /\ asc[i].Version < asc[i + 1].Version
               /\ desc[i].Version > desc[i + 1].Version

\* A registry of three versions, of both modes, in neither ascending nor
\* descending order, of which the two sorts give the two orders.
C19_Witness ==
    /\ Len(migrations[1]) = 3
    /\ sortMigrationsAsc(migrations[1]) # migrations[1]
    /\ sortMigrationsDesc(migrations[1]) # migrations[1]
    /\ sortMigrationsDesc(migrations[1]) = Reverse(sortMigrationsAsc(migrations[1]))
    /\ [i \in 1..3 |-> sortMigrationsAsc(migrations[1])[i].Version] = <<1, 2, 3>>
    /\ ~migrations[1][1].UpDown.nil /\ migrations[1][2].UpDown.nil

-----------------------------------------------------------------------------
(* C15 *)

Range(s) == {s[i] : i \in 1..Len(s)}

\* The defects a definition can have, in the order in which they are
\* looked for, and the text that reports each.
DefectKinds == <<"version", "neither", "both", "txLacks", "noTxLacks">>

HasDefect(m, kind) ==
    IF kind = "version" THEN m.Version <= 0
    ELSE IF kind = "neither" THEN m.UpDown.nil /\ m.UpDownNoTX.nil
    ELSE IF kind = "both" THEN ~m.UpDown.nil /\ ~m.UpDownNoTX.nil
    ELSE IF kind = "txLacks"
    THEN ~m.UpDown.nil /\ ~(m.UpDown.Up /\ m.UpDown.Down)
    ELSE ~m.UpDownNoTX.nil /\ ~(m.UpDownNoTX.Up /\ m.UpDownNoTX.Down)

DefectText(m, kind) ==
    IF kind = "version" THEN "migration version must be > 0"
    ELSE "migration " \o ToString(m.Version) \o
        (IF kind = "neither"
         THEN " must have UpDown xor UpDownNoTX fields defined"
         ELSE IF kind = "both"
         THEN " must have only one of UpDown or UpDownNoTX fields defined"
         ELSE IF kind = "txLacks"
         THEN " UpDown must have both Up and Down functions defined"
         ELSE " UpDownNoTX must have both Up and Down functions defined")

Defects(m) == {k \in 1..Len(DefectKinds) : HasDefect(m, DefectKinds[k])}
Defective(m) == Defects(m) # {}
FirstDefect(m) == DefectKinds[CHOOSE k \in Defects(m) : \A j \in Defects(m) : k <= j]

\* The versions that more than one definition of the slice has, and the
\* text that reports one.
Repeated(migs) ==
    {v \in VersionsOf(migs) :
        \E i, j \in 1..Len(migs) : i # j /\ migs[i].Version = v /\ migs[j].Version = v}

RepeatedText(migs, v) ==
    "migration version " \o ToString(v) \o " is defined "
        \o ToString(Cardinality({i \in 1..Len(migs) : migs[i].Version = v}))
        \o " times"

\* newGosmig refused p before it looked at the registry: an argument was
\* nil.
NilArgRejected(p) ==
    /\ pc[p] = "rejected"
    /\ err[p] \in {nilArgErr(a) :
                      a \in {"connectToDB", "getArgs", "osExit", "out", "errOut"}}

\* newGosmig refused the registry of p because validateMigrations did.
ValidationRejected(p) ==
    /\ pc[p] = "rejected"
    /\ ~NilArgRejected(p)
    /\ Len(migrations[p]) > 0
    /\ \E m \in Range(migrations[p]) : Defective(m)
           \/ Repeated(migrations[p]) # {}

\* The error of p joins exactly the findings F.
Reports(p, F) == err[p] = <<"invalid migration(s): " \o Join(F, "; ")>>

\* The findings validateMigrations collected for p, the map having been
\* iterated in the given order.
Findings(p, order) == validationErrs(migrations[p], order)

\* C15 as stated: the one error validateMigrations returns reports every
\* defect present in the registry: every defect of every definition, also
\* when a definition has several, and every repeated version.
C15_AsStated ==
    \A p \in Procs :
        ValidationRejected(p) =>
            \E order \in MapOrders(Repeated(migrations[p])) :
                /\ Reports(p, Findings(p, order))
                /\ \A i \in 1..Len(migrations[p]) :
                       \A k \in Defects(migrations[p][i]) :
                           DefectText(migrations[p][i], DefectKinds[k])
                               \in Range(Findings(p, order))
                /\ \A v \in Repeated(migrations[p]) :
                       RepeatedText(migrations[p], v) \in Range(Findings(p, order))

\* The first defect of every defective definition of the slice, in the
\* order of the slice.
FirstDefects(migs) ==
    SelectSeq([i \in 1..Len(migs) |->
                  IF Defective(migs[i])
                  THEN DefectText(migs[i], FirstDefect(migs[i]))
                  ELSE ""],
              LAMBDA text : text # "")

\* C15, amended: validateMigrations does not stop at the first defective
\* definition: its one error joins, in the order of the slice, one finding
\* for every defective definition, followed by one finding for every
\* repeated version.  Of a definition with several defects only the first
\* is reported (version <= 0, else neither mode, else both modes, else the
\* mode lacking a function).
C15_AggregatesFirstDefects ==
    \A p \in Procs :
        ValidationRejected(p) =>
            /\ Len(err[p]) = 1
            /\ \E order \in MapOrders(Repeated(migrations[p])) :
                   Reports(p, FirstDefects(migrations[p])
                       \o [n \in 1..Len(order) |->
                              RepeatedText(migrations[p], order[n])])

\* A refused registry of three definitions, all defective, one of them
\* with two defects, two of them with the same version.
C15_Witness ==
    /\ ValidationRejected(1)
    /\ Len(migrations[1]) = 3
    /\ \A i \in 1..3 : Defective(migrations[1][i])
    /\ \E i \in 1..3 : Cardinality(Defects(migrations[1][i])) >= 2
    /\ Cardinality(Repeated(migrations[1])) = 1
    /\ migrations[1][1].Version = 1
    /\ Len(FirstDefects(migrations[1])) = 3

-----------------------------------------------------------------------------
(* C16 *)

\* The findings F are what the error of p joins, and among them are the
\* finding of a zero version and that of every repeated version.
ReportsZeroAndRepeated(p, F) ==
    /\ Reports(p, F)
    /\ "migration version must be > 0" \in Range(F)
    /\ \A v \in Repeated(migrations[p]) :
           RepeatedText(migrations[p], v) \in Range(F)

\* C16: a registry with a definition of version zero and with a repeated
\* version is always refused; when validateMigrations is reached (no
\* argument of newGosmig is nil) it is refused with one error, whose text
\* holds the finding of the zero version and the finding of the repeated
\* version.
C16_ZeroAndDuplicate ==
    \A p \in Procs :
        (/\ \E i \in 1..Len(migrations[p]) : migrations[p][i].Version = 0
         /\ Repeated(migrations[p]) # {}) =>
            /\ pc[p] \in {"new", "rejected"}
            /\ (pc[p] = "rejected" /\ ~NilArgRejected(p)) =>
                   /\ Len(err[p]) = 1
                   /\ \E order \in MapOrders(Repeated(migrations[p])) :
                          ReportsZeroAndRepeated(p, Findings(p, order))

\* Versions 0, 1, 1, all otherwise complete, were refused with both
\* findings.
C16_Witness ==
    /\ pc[1] = "rejected"
    /\ ~NilArgRejected(1)
    /\ Len(migrations[1]) = 3
    /\ migrations[1][1].Version = 0
    /\ migrations[1][2].Version = 1 /\ migrations[1][3].Version = 1
    /\ err[1] = <<"invalid migration(s): migration version must be > 0; "
                      \o "migration version 1 is defined 2 times">>

-----------------------------------------------------------------------------
(* C17 *)

\* Every definition has a version > 0 and exactly one mode, with both of
\* its functions; no two definitions have the same version.
WellFormed(migs) ==
    /\ \A i \in 1..Len(migs) :
           /\ migs[i].Version > 0
           /\ migs[i].UpDown.nil # migs[i].UpDownNoTX.nil
           /\ ~migs[i].UpDown.nil => migs[i].UpDown.Up /\ migs[i].UpDown.Down
           /\ ~migs[i].UpDownNoTX.nil =>
                  migs[i].UpDownNoTX.Up /\ migs[i].UpDownNoTX.Down
    /\ \A i, j \in 1..Len(migs) :
           i # j => migs[i].Version # migs[j].Version

\* C17: validateMigrations returns nil exactly for the well-formed
\* registries: newGosmig goes on to return its closure only with a
\* well-formed registry, and it refuses a well-formed registry only for
\* being empty or for a nil argument.
C17_AcceptsIffWellFormed ==
    \A p \in Procs :
        /\ pc[p] \in {"ready", "rejected"} =>
               \A order \in MapOrders(DuplicatedVersions(migrations[p])) :
                   (validateMigrations(migrations[p], order) = nil)
                       <=> WellFormed(migrations[p])
        /\ pc[p] \notin {"new", "rejected"} => WellFormed(migrations[p])
        /\ (pc[p] = "rejected" /\ WellFormed(migrations[p])) =>
               \/ Len(migrations[p]) = 0 /\ err[p] = noMigrationsErr
               \/ err[p] \in {nilArgErr(a) :
                      a \in {"connectToDB", "getArgs", "osExit", "out", "errOut"}}

\* A registry of one well-formed definition, of the mode without
\* transaction, was accepted and its closure has run to its return.
C17_Witness ==
    /\ pc[1] = "returned"
    /\ Len(migrations[1]) = 1
    /\ WellFormed(migrations[1])
    /\ migrations[1][1].UpDown.nil
    /\ Len(hostCalls[1]) >= 3

-----------------------------------------------------------------------------
(* C18 *)

\* C18: a registry that validateMigrations rejects is refused by newGosmig
\* itself: the closure is not returned, so that connectToDB,
\* createMigrationsTableIfNotExists and the commands are never called for
\* it, and nothing is written or changed.
C18_RejectedBeforeDatabase ==
    \A p \in Procs :
        ~WellFormed(migrations[p]) =>
            /\ pc[p] \in {"new", "rejected"}
            /\ hostCalls[p] = <<>> /\ calls[p] = <<>> /\ output[p] = <<>>
            /\ ~tx[p].open /\ cmd[p] = "none"
            /\ pc[p] = "rejected" => err[p] # nil /\ Len(err[p]) = 1

\* A registry with a definition lacking its Up function was refused with
\* nothing called.
C18_Witness ==
    /\ pc[1] = "rejected"
    /\ Len(migrations[1]) = 2
    /\ migrations[1][1] = TxMigration(1)
    /\ ~migrations[1][2].UpDown.nil /\ ~migrations[1][2].UpDown.Up
    /\ migrations[1][2].Version = 0
    /\ hostCalls[1] = <<>>

-----------------------------------------------------------------------------
(* C20 *)

\* The calls of the closure of p to op, as positions in hostCalls.
HostCallsOf(p, op) == {i \in 1..Len(hostCalls[p]) : hostCalls[p][i].op = op}

Connected(p) ==
    \E i \in HostCallsOf(p, "connectToDB") : hostCalls[p][i].ok

\* The invocation of the closure of p is over: it returned, or osExit ended
\* the process.
InvocationEnded(p) == pc[p] \in {"returned", "terminated"}

\* C20 as stated: when the invocation ends after a successful connectToDB,
\* db.Close has been called exactly once, on the path without failure and
\* on the paths where createMigrationsTableIfNotExists or the command
\* failed; when such a step and Close both failed, the last exit code
\* given to osExit is 3.
C20_AsStated ==
    \A p \in Procs :
        (InvocationEnded(p) /\ Connected(p)) =>
            /\ Cardinality(HostCallsOf(p, "Close")) = 1
            /\ (/\ \E i \in HostCallsOf(p, "osExit") :
                       hostCalls[p][i].code \in 4..9
                /\ \E i \in HostCallsOf(p, "Close") : ~hostCalls[p][i].ok) =>
                   /\ Last(hostCalls[p]).op = "osExit"
                   /\ Last(hostCalls[p]).code = 3

\* With an osExit that returns, as the one the tests give, the same holds.
CloseOnceWhenOsExitReturns ==
    \A p \in Procs :
        osExitReturns[p] =>
            ((InvocationEnded(p) /\ Connected(p)) =>
                /\ Cardinality(HostCallsOf(p, "Close")) = 1
                /\ (/\ \E i \in HostCallsOf(p, "osExit") :
                           hostCalls[p][i].code \in 4..9
                    /\ \E i \in HostCallsOf(p, "Close") : ~hostCalls[p][i].ok) =>
                       /\ Last(hostCalls[p]).op = "osExit"
                       /\ Last(hostCalls[p]).code = 3)

\* With an osExit that ends the process, as os.Exit does, db.Close is
\* called exactly when no step after connectToDB failed.
NoCloseAfterOsExit ==
    \A p \in Procs :
        (~osExitReturns[p] /\ InvocationEnded(p) /\ Connected(p)) =>
            IF \E i \in HostCallsOf(p, "osExit") : hostCalls[p][i].code \in 4..9
            THEN HostCallsOf(p, "Close") = {} /\ pc[p] = "terminated"
            ELSE Cardinality(HostCallsOf(p, "Close")) = 1

-----------------------------------------------------------------------------
(* C21 *)

\* The exit code the claim gives the stage that failed before the i-th
\* host call of p, an osExit: the call before it when that one failed,
\* else the command line (no command was taken from it) or the command.
StageCode(p, i) ==
    LET before == IF i > 1 THEN hostCalls[p][i - 1]
                  ELSE HostCall("none", TRUE, 0, nil) IN
    IF ~before.ok /\ before.op = "connectToDB" THEN 2
    ELSE IF ~before.ok /\ before.op = "Close" THEN 3
    ELSE IF ~before.ok /\ before.op = "createMigrationsTable" THEN 4
    ELSE IF cmd[p] = "none" THEN 1
    ELSE IF cmd[p] = "up" /\ limit[p] # 1 THEN 5
    ELSE IF cmd[p] = "up" THEN 6
    ELSE IF cmd[p] = "down" THEN 7
    ELSE IF cmd[p] = "status" THEN 8
    ELSE 9

EveryStageItsCode(p) ==
    \A i \in HostCallsOf(p, "osExit") :
        /\ hostCalls[p][i].code = StageCode(p, i)
        /\ hostCalls[p][i].err # nil

\* The command of p returned an error and db.Close returned none.
CommandFailedCloseOk(p) ==
    /\ pc[p] = "returned"
    /\ cmd[p] # "none" /\ err[p] # nil
    /\ \E i \in HostCallsOf(p, "Close") : hostCalls[p][i].ok

OsExitOnceWithCommandCode(p) ==
    /\ Cardinality(HostCallsOf(p, "osExit")) = 1
    /\ \A i \in HostCallsOf(p, "osExit") :
           /\ hostCalls[p][i].code \in 5..9
           /\ hostCalls[p][i].err = err[p]

\* C21 as stated: every osExit is given the code of the stage that failed;
\* when the command failed and Close succeeded, osExit was called exactly
\* once, with the command's code, and the normal output is empty.
C21_AsStated ==
    \A p \in Procs :
        /\ EveryStageItsCode(p)
        /\ CommandFailedCloseOk(p) =>
               /\ OsExitOnceWithCommandCode(p)
               /\ output[p] = <<>>

\* C21, amended: as above, but the normal output is not empty in general:
\* it holds the "Applied" lines of the candidates of up that completed
\* before the one that failed, and nothing else; it is empty for down,
\* status and version.
C21_StageCodes ==
    \A p \in Procs :
        /\ EveryStageItsCode(p)
        /\ CommandFailedCloseOk(p) =>
               /\ OsExitOnceWithCommandCode(p)
               /\ output[p] = [i \in 1..Len(CompletedUnits(p)) |->
                                  AppliedLine(CompletedUnits(p)[i])]
               /\ cmd[p] # "up" => output[p] = <<>>

\* up applied version 1 and failed on version 2: osExit was called once,
\* with 5, Close succeeded, and the line of version 1 is in the output.
C21_Witness ==
    /\ CommandFailedCloseOk(1)
    /\ cmd[1] = "up" /\ limit[1] = 0
    /\ Len(hostCalls[1]) = 4
    /\ hostCalls[1][3].op = "osExit" /\ hostCalls[1][3].code = 5
    /\ hostCalls[1][4].op = "Close"
    /\ output[1] = <<AppliedLine(1)>>

-----------------------------------------------------------------------------
(* C22 *)

\* The error chain runCmdUp or runCmdDown returns for an error e of the
\* closure of the candidate of version v.
UnitErr(p, v, e) ==
    IF IsTx(p, v)
    THEN <<"execute in TX", "failed to execute in transaction">> \o e
    ELSE <<"execute without TX", "failed to execute without transaction">> \o e

\* After the guard read that is call k of p, the guard refused: neither the
\* action nor a ledger mutation nor a Commit follows, and the command
\* returns the conflict error `conflict` with its detail.
GuardRefusedAt(p, k, conflict, detail) ==
    /\ \A j \in (k + 1)..Len(calls[p]) :
           calls[p][j].op \notin {"up", "down", "insert", "delete", "Commit"}
    /\ pc[p] \in {"rollback", "done"}
    /\ pc[p] = "done" =>
           err[p] = UnitErr(p, calls[p][k].version, <<conflict, detail>>)

\* After the guard read that is call k of p, the guard let the action run:
\* the action of the same candidate is the next call, made or about to be.
GuardPassedAt(p, k, action) ==
    IF Len(calls[p]) = k
    THEN pc[p] = "action" /\ CandidateVersion(p) = calls[p][k].version
    ELSE /\ calls[p][k + 1].op = action
         /\ calls[p][k + 1].version = calls[p][k].version

\* C22: the up guard refuses exactly when the candidate's version <= the
\* version it read: then Up is not called, nothing is inserted and the
\* error is errDBVersionChangedUp; when the candidate's version > the
\* version read, Up is called next.
C22_UpGuard ==
    \A p \in Procs : \A k \in GuardReads(p) :
        LET c == calls[p][k] IN
        cmd[p] = "up" =>
            IF c.version <= c.val
            THEN GuardRefusedAt(p, k,
                     "database version changed while applying migration up",
                     "migration version " \o ToString(c.version)
                         \o " <= current DB version " \o ToString(c.val))
            ELSE GuardPassedAt(p, k, "up")

\* An up returned the conflict error for a candidate whose version the
\* guard read as the current one, and in the same command the guard had let
\* an earlier candidate through.
C22_Witness ==
    /\ RunCmdUpReturned(1)
    /\ Cardinality(GuardReads(1)) = 2
    /\ \E k \in GuardReads(1) :
           /\ calls[1][k].version = calls[1][k].val
           /\ \A j \in (k + 1)..Len(calls[1]) : calls[1][j].op = "Rollback"
    /\ \E k \in GuardReads(1) :
           /\ calls[1][k].version > calls[1][k].val
           /\ calls[1][k + 1].op = "up"
    /\ \E i \in 1..Len(err[1]) : err[1][i] = errDBVersionChangedUp

-----------------------------------------------------------------------------
(* C23 *)

\* C23: the down guard refuses exactly when the candidate's version > the
\* version it read: then Down is not called, nothing is deleted and the
\* error is errDBVersionChangedDown; when the candidate's version <= the
\* version read, Down is called next.
C23_DownGuard ==
    \A p \in Procs : \A k \in GuardReads(p) :
        LET c == calls[p][k] IN
        cmd[p] = "down" =>
            IF c.version > c.val
            THEN GuardRefusedAt(p, k,
                     "database version changed while applying migration down",
                     "migration version " \o ToString(c.version)
                         \o " > current DB version " \o ToString(c.val))
            ELSE GuardPassedAt(p, k, "down")

\* A down returned the conflict error: its guard read a version below the
\* candidate's, the other process having rolled the candidate back.
C23_Witness ==
    /\ cmd[1] = "down" /\ pc[1] = "done"
    /\ \E k \in GuardReads(1) :
           /\ calls[1][k].version > calls[1][k].val
           /\ calls[1][k].version = dbVersion[1]
    /\ \E i \in 1..Len(err[1]) : err[1][i] = errDBVersionChangedDown
    /\ CandidateVersion(1) \notin ledger

-----------------------------------------------------------------------------
(* C24 *)

\* The action of a migration (call k of p) follows at once the successful
\* guard read of the same candidate, whose check passed.
ActionAfterGuard(p, k) ==
    /\ k > 1
    /\ calls[p][k].op = cmd[p]
    /\ IsCall(calls[p][k - 1], "getDBVersion", calls[p][k].version, TRUE)
    /\ calls[p][k].version # 0
    /\ IF cmd[p] = "up"
       THEN calls[p][k].version > calls[p][k - 1].val
       ELSE calls[p][k].version <= calls[p][k - 1].val

\* The ledger mutation (call k of p) follows at once the successful action
\* of the same candidate and direction.
MutationAfterAction(p, k) ==
    /\ k > 2
    /\ IsCall(calls[p][k - 1],
              IF calls[p][k].op = "insert" THEN "up" ELSE "down",
              calls[p][k].version, TRUE)
    /\ ActionAfterGuard(p, k - 1)

\* In every unit the calls are in the order guard read, action, ledger
\* mutation.
UnitOrder ==
    \A p \in Procs : \A k \in 1..Len(calls[p]) :
        /\ calls[p][k].op \in {"up", "down"} => ActionAfterGuard(p, k)
        /\ calls[p][k].op \in {"insert", "delete"} => MutationAfterAction(p, k)

\* A step that changes the gosmig table is the last step of a unit of some
\* process: without transaction its ledger mutation, with one the Commit
\* that follows its ledger mutation; the change is the candidate's row.
LedgerChangedInUnit ==
    ledger' # ledger =>
        \E p \in Procs :
            /\ Len(calls'[p]) = Len(calls[p]) + 1
            /\ idx[p] \in 1..Len(migrations[p])
            /\ LET k == Len(calls'[p])
                   c == calls'[p][k]
                   m == IF IsTx(p, c.version) THEN calls'[p][k - 1] ELSE c IN
               /\ c.ok /\ c.version = CandidateVersion(p)
               /\ c.op = (IF IsTx(p, c.version) THEN "Commit" ELSE m.op)
               /\ IsCall(m, IF cmd[p] = "up" THEN "insert" ELSE "delete",
                         c.version, TRUE)
               /\ ledger' = (IF cmd[p] = "up" THEN ledger \cup {c.version}
                             ELSE ledger \ {c.version})

\* C24: inside a unit the steps are guard read, action, ledger mutation, in
\* that order: the action is called only after a successful guard read whose
\* check passed, the ledger mutation (insert on up, delete on down, of the
\* candidate's version) only after the action returned nil, and the gosmig
\* table is never changed outside such a unit.
C24_UnitOrder == []UnitOrder /\ [][LedgerChangedInUnit]_vars

\* A transactional up has committed the row of its candidate after the
\* guard read, Up and the insert, in that order.
C24_Witness ==
    /\ cmd[1] = "up" /\ Len(calls[1]) = 6
    /\ calls[1][2].op = "BeginTx"
    /\ calls[1][3].op = "getDBVersion" /\ calls[1][3].ok
    /\ calls[1][4].op = "up" /\ calls[1][4].ok
    /\ calls[1][5].op = "insert" /\ calls[1][5].ok
    /\ calls[1][6].op = "Commit" /\ calls[1][6].ok
    /\ calls[1][6].version \in ledger

-----------------------------------------------------------------------------
(* C25 *)

\* The calls of p that begin a transaction, and for such a call k the
\* calls that end its transaction: the Commit and Rollback calls after k up
\* to the next BeginTx.
Begins(p) == {k \in 1..Len(calls[p]) : calls[p][k].op = "BeginTx"}

EndsOf(p, k) ==
    {j \in (k + 1)..Len(calls[p]) :
        /\ calls[p][j].op \in {"Commit", "Rollback"}
        /\ \A i \in (k + 1)..j : calls[p][i].op # "BeginTx"}

\* Call i of p is a step of the unit's function that failed: the guard
\* read, the guard's check, the action or the ledger mutation; and the
\* error that step returns.
StepFailed(p, i) ==
    LET c == calls[p][i] IN
    \/ ~c.ok
    \/ /\ c.op = "getDBVersion"
       /\ IF cmd[p] = "up" THEN c.version <= c.val ELSE c.version > c.val

StepErr(p, i) ==
    LET c == calls[p][i] IN
    IF c.op = "getDBVersion"
    THEN (IF ~c.ok THEN getDBVersionErr
          ELSE IF cmd[p] = "up" THEN guardUpErr(c.version, c.val)
          ELSE guardDownErr(c.version, c.val))
    ELSE IF c.op = "up" THEN upErr(c.version)
    ELSE IF c.op = "down" THEN downErr(c.version)
    ELSE IF c.op = "insert" THEN insertDBVersionErr(c.version)
    ELSE deleteDBVersionErr(c.version)

\* The transaction begun by call k of p was ended by call j.
EndedRight(p, k, j) ==
    IF \E i \in (k + 1)..(j - 1) : StepFailed(p, i)
    THEN /\ calls[p][j].op = "Rollback"
         /\ StepFailed(p, j - 1)
         /\ \A i \in (k + 1)..(j - 2) : ~StepFailed(p, i)
         /\ j = Len(calls[p]) /\ pc[p] = "done"
         /\ err[p] = <<"execute in TX", "failed to execute in transaction">>
                         \o StepErr(p, j - 1)
    ELSE /\ calls[p][j].op = "Commit"
         /\ j = k + 4
         /\ calls[p][k + 1].op = "getDBVersion"
         /\ calls[p][k + 2].op \in {"up", "down"}
         /\ calls[p][k + 3].op \in {"insert", "delete"}

\* C25: of every transaction that was begun exactly one of Commit and
\* Rollback is called: Rollback when the guard read, the guard's check, the
\* action or the ledger mutation failed, Commit when none did; the error
\* reported after a Rollback is the one of the step that failed, whatever
\* Rollback returned; when BeginTx fails, the unit's function is not called.
C25_CommitXorRollback ==
    \A p \in Procs : \A k \in Begins(p) :
        IF ~calls[p][k].ok
        THEN /\ k = Len(calls[p]) /\ pc[p] = "done" /\ ~tx[p].open
             /\ err[p] = <<"execute in TX", "failed to begin transaction", DBError>>
        ELSE /\ Cardinality(EndsOf(p, k)) <= 1
             /\ (EndsOf(p, k) = {}) <=>
                    /\ tx[p].open
                    /\ pc[p] \in {"guard", "action", "mutate", "commit", "rollback"}
                    /\ \A i \in Begins(p) : i <= k
             /\ \A j \in EndsOf(p, k) : EndedRight(p, k, j)
             /\ (EndsOf(p, k) = {} /\ pc[p] = "rollback") =>
                    StepFailed(p, Len(calls[p]))
             /\ (EndsOf(p, k) = {} /\ pc[p] = "commit") =>
                    /\ Len(calls[p]) = k + 3
                    /\ \A i \in (k + 1)..(k + 3) : ~StepFailed(p, i)

\* A transactional up: the insert failed, Rollback was called and failed
\* too, and the error reported is the insert's.
C25_Witness ==
    /\ RunCmdUpReturned(1)
    /\ Len(calls[1]) = 6
    /\ calls[1][2].op = "BeginTx" /\ calls[1][2].ok
    /\ calls[1][5].op = "insert" /\ ~calls[1][5].ok
    /\ calls[1][6].op = "Rollback" /\ ~calls[1][6].ok
    /\ err[1] = <<"execute in TX", "failed to execute in transaction">>
                    \o insertDBVersionErr(calls[1][5].version)

-----------------------------------------------------------------------------
(* C26 *)

\* The calls of p in which Commit returned an error.
FailedCommits(p) ==
    {k \in 1..Len(calls[p]) : calls[p][k].op = "Commit" /\ ~calls[p][k].ok}

\* C26: when Commit fails, the command returns the error at once: no call
\* follows, so no further candidate is tried; the candidate has no line in
\* the output and is not counted; the gosmig table has no row of it, and the
\* schema no change of it.
C26_CommitFailureFatal ==
    \A p \in Procs : \A k \in FailedCommits(p) :
        LET v == calls[p][k].version IN
        /\ k = Len(calls[p]) /\ pc[p] = "done" /\ ~tx[p].open
        /\ err[p] = <<"execute in TX", "failed to commit transaction", DBError>>
        /\ \A i \in 1..Len(output[p]) :
               output[p][i] \notin {AppliedLine(v), RolledBackLine(v),
                                    NoMigrationsLine, NoRollbackLine}
                   /\ \A n \in 0..MaxVersion : output[p][i] # SummaryLine(n)
        /\ cmd[p] = "up" =>
               /\ nbAppliedMigrations[p] = Len(CompletedUnits(p))
               /\ Len(output[p]) = Len(CompletedUnits(p))
               /\ v \notin ledger /\ v \notin schema
               /\ v \notin {CompletedUnits(p)[i] : i \in 1..Len(CompletedUnits(p))}
        /\ cmd[p] = "down" => output[p] = <<>>

\* An up over versions 1, 2, 3: version 1 was committed, the Commit of
\* version 2 failed, and version 3 was not tried.
C26_Witness ==
    /\ RunCmdUpReturned(1)
    /\ VersionsOf(migrations[1]) = {1, 2, 3}
    /\ FailedCommits(1) # {}
    /\ Last(calls[1]).version = 2
    /\ output[1] = <<AppliedLine(1)>>
    /\ nbAppliedMigrations[1] = 1
    /\ ledger = {1}

-----------------------------------------------------------------------------
(* C27 *)

\* In this step p, running the candidate of version v without transaction,
\* made the ledger mutation op, which failed.
NoTxMutationFails(p, op, v) ==
    /\ Len(calls'[p]) = Len(calls[p]) + 1
    /\ IsCall(Last(calls'[p]), op, v, FALSE)
    /\ ~IsTx(p, v)

\* C27: without transaction nothing is undone: when Up succeeded and the
\* insert fails, executeNoTx returns the error, the change Up made stays in
\* the schema and the gosmig table has no row of the version; when Down
\* succeeded and the delete fails, the change stays undone and the row of
\* the version stays.
C27_NoTxNotAtomic ==
    [][\A p \in Procs : \A v \in Versions :
          /\ NoTxMutationFails(p, "insert", v) =>
                 /\ pc'[p] = "done"
                 /\ err'[p] = <<"execute without TX",
                                "failed to execute without transaction">>
                                  \o insertDBVersionErr(v)
                 /\ schema' = schema /\ v \in schema'
                 /\ ledger' = ledger /\ v \notin ledger'
          /\ NoTxMutationFails(p, "delete", v) =>
                 /\ pc'[p] = "done"
                 /\ err'[p] = <<"execute without TX",
                                "failed to execute without transaction">>
                                  \o deleteDBVersionErr(v)
                 /\ schema' = schema /\ v \notin schema'
                 /\ ledger' = ledger
      ]_vars

\* An up without transaction returned the insert's error: the version is
\* in the schema and not in the gosmig table, while the version before it
\* is in both.
C27_Witness ==
    /\ RunCmdUpReturned(1)
    /\ IsCall(Last(calls[1]), "insert", 2, FALSE)
    /\ ~IsTx(1, 2)
    /\ schema = {1, 2} /\ ledger = {1}
    /\ err[1] = <<"execute without TX", "failed to execute without transaction",
                  "failed to insert migration version 2 into migrations table",
                  DBError>>

-----------------------------------------------------------------------------
(* C28 *)

\* The calls of p of operation op for the candidate of version v (v = 0:
\* the read of the current version at the start of the command).
CallsOf(p, op, v) ==
    {k \in 1..Len(calls[p]) : calls[p][k].op = op /\ calls[p][k].version = v}

\* C28: nothing is tried again: in one command the current version is read
\* once at the start, and for each candidate each of BeginTx, the guard
\* read, the action, the ledger mutation, Commit and Rollback is called at
\* most once, whether it fails or not; a call that failed is followed by
\* no call but the Rollback of its transaction.
C28_NoRetries ==
    \A p \in Procs :
        /\ cmd[p] # "none" => Cardinality(CallsOf(p, "getDBVersion", 0)) = 1
        /\ \A v \in Versions :
               \A op \in {"BeginTx", "getDBVersion", "up", "down", "insert",
                          "delete", "Commit", "Rollback"} :
                   Cardinality(CallsOf(p, op, v)) <= 1
        /\ \A k \in 1..Len(calls[p]) :
               ~calls[p][k].ok =>
                   /\ Len(calls[p]) <= k + 1
                   /\ Len(calls[p]) = k + 1 =>
                          /\ calls[p][k + 1].op = "Rollback"
                          /\ calls[p][k].op \notin {"BeginTx", "Commit"}

\* An up applied version 1 and returned after the insert of version 2 had
\* failed once.
C28_Witness ==
    /\ RunCmdUpReturned(1)
    /\ CallsOf(1, "insert", 1) # {}
    /\ \E k \in CallsOf(1, "insert", 2) : ~calls[1][k].ok
    /\ Cardinality(CallsOf(1, "up", 2)) = 1
    /\ err[1] # nil

-----------------------------------------------------------------------------
(* C29 *)

\* The messages whose format names the migration version v, the messages
\* that name the direction d, and the messages that name an operation.
MessagesOfVersion(v) ==
    {insertDBVersionErr(v)[1], deleteDBVersionErr(v)[1], upErr(v)[1],
     downErr(v)[1]}
        \cup {guardUpErr(v, c)[2] : c \in 0..MaxVersion}
        \cup {guardDownErr(v, c)[2] : c \in 0..MaxVersion}

MessagesOfDirection(d) ==
    IF d = "up"
    THEN {errDBVersionChangedUp} \cup {upErr(v)[1] : v \in Versions}
    ELSE {errDBVersionChangedDown} \cup {downErr(v)[1] : v \in Versions}

OperationMessages ==
    {beginTxErr[1], commitErr[1], getDBVersionErr[1], errDBVersionChangedUp,
     errDBVersionChangedDown}
        \cup UNION {{insertDBVersionErr(v)[1], deleteDBVersionErr(v)[1],
                     upErr(v)[1], downErr(v)[1]} : v \in Versions}

ChainHas(e, M) == \E i \in 1..Len(e) : e[i] \in M

\* An up or down of p returned a failure: of the read of the current
\* version at the start of the command, or of a unit.
CommandFailure(p) ==
    /\ cmd[p] \in {"up", "down"}
    /\ pc[p] = "done"
    /\ err[p] # nil

\* The failure p returned is the one of the read of the current version at
\* the start of the command: that read is the only call, no candidate was
\* taken.
SnapshotReadFailed(p) == Len(calls[p]) = 1

ExecutorContexts == {"execute in TX", "execute without TX"}

\* The call of the failed unit that failed (a Rollback's own failure is
\* not reported).
FailingCallOf(p) == CHOOSE k \in 2..Len(calls[p]) : FailedCall(p, k)

\* The error p returned is the failure of the read of the current version
\* as getDBVersion built it: the command added nothing, so it has the
\* read's context and no executor's context, version or direction.
ReturnedBare(p) ==
    /\ calls[p][1].op = "getDBVersion"
    /\ ~calls[p][1].ok
    /\ idx[p] = 0
    /\ err[p] = getDBVersionErr
    /\ ~ChainHas(err[p], ExecutorContexts)
    /\ ChainHas(err[p], OperationMessages)
    /\ \A w \in Versions : ~ChainHas(err[p], MessagesOfVersion(w))
    /\ ~ChainHas(err[p], MessagesOfDirection("up"))
    /\ ~ChainHas(err[p], MessagesOfDirection("down"))

\* The error p returned is the chain the failure of call c of the candidate
\* of version v gives, and names what that failure's messages name.
WrappedRight(p, c, v) ==
    /\ c.version = v
    /\ err[p] = IF c.op = "BeginTx"
                THEN <<"execute in TX", "failed to begin transaction", DBError>>
                ELSE IF c.op = "Commit"
                THEN <<"execute in TX", "failed to commit transaction", DBError>>
                ELSE UnitErr(p, v, StepErr(p, FailingCallOf(p)))
    /\ err[p][1] = IF IsTx(p, v) THEN "execute in TX" ELSE "execute without TX"
    /\ ChainHas(err[p], OperationMessages)
    /\ ChainHas(err[p], MessagesOfVersion(v))
           <=> \/ c.op \in {"up", "down", "insert", "delete"}
               \/ c.op = "getDBVersion" /\ c.ok
    /\ ChainHas(err[p], MessagesOfDirection(cmd[p]))
           <=> \/ c.op \in {"up", "down"}
               \/ c.op = "getDBVersion" /\ c.ok
    /\ \A w \in Versions \ {v} : ~ChainHas(err[p], MessagesOfVersion(w))
    /\ ~ChainHas(err[p], MessagesOfDirection(IF cmd[p] = "up" THEN "down" ELSE "up"))

\* C29 as stated: every failure that up or down returns names the
\* migration version (the candidate's; a version, when no candidate was
\* taken), the direction and the operation.
C29_AsStated ==
    \A p \in Procs :
        CommandFailure(p) =>
            /\ IF SnapshotReadFailed(p)
               THEN \E v \in Versions : ChainHas(err[p], MessagesOfVersion(v))
               ELSE ChainHas(err[p], MessagesOfVersion(CandidateVersion(p)))
            /\ ChainHas(err[p], MessagesOfDirection(cmd[p]))
            /\ ChainHas(err[p], OperationMessages)

\* C29: every failure that up or down returns has the failed operation's
\* context.  The failure of the read of the current version at the start
\* of the command is returned as it is, with no executor's context, no
\* version and no direction.  The failure of a unit is wrapped with the
\* executor's context; it names the migration version and the direction
\* when the guard refused or the action failed, the version but not the
\* direction when the insert or delete failed, and neither when BeginTx,
\* the guard read or Commit failed.
C29_Wrapping ==
    \A p \in Procs :
        CommandFailure(p) =>
            IF SnapshotReadFailed(p)
            THEN ReturnedBare(p)
            ELSE WrappedRight(p, calls[p][FailingCallOf(p)], CandidateVersion(p))

\* An up returned the failure of the insert of version 2 in a transaction:
\* the error names version 2 and the insert, and not the direction.
C29_Witness ==
    /\ CommandFailure(1)
    /\ ~SnapshotReadFailed(1)
    /\ cmd[1] = "up"
    /\ err[1] = <<"execute in TX", "failed to execute in transaction">>
                    \o insertDBVersionErr(2)
    /\ calls[1][FailingCallOf(1)].op = "insert"
    /\ ~ChainHas(err[1], MessagesOfDirection("up"))

-----------------------------------------------------------------------------
(* C30 *)

\* Whether ctx is parent or was made from it, directly or not: what
\* cancels parent cancels ctx.
DerivedFrom(ctx, parent) ==
    /\ Len(parent) <= Len(ctx)
    /\ SubSeq(ctx, 1, Len(parent)) = parent

\* p is about to make the guard read, the action or the ledger mutation of
\* its candidate.
InUnitStep(p) ==
    /\ cmd[p] \in {"up", "down"}
    /\ pc[p] \in {"guard", "action", "mutate"}

\* C30 as stated: in both executors the guard read, the action and the
\* ledger mutation run under a context derived from the unit's context of
\* twice the base timeout, so that the unit's deadline cancels them.
C30_AsStated ==
    \A p \in Procs :
        InUnitStep(p) =>
            DerivedFrom(CallCtx(p), UnitCtx(Candidate(p), Background))

\* What holds: BeginTx runs under the unit's context, and so do the three
\* steps of a unit without a transaction; the three steps of a unit in a
\* transaction run under the command's context and their own deadline of
\* one base timeout only.
C30_OnlyWithoutTx ==
    \A p \in Procs :
        /\ cmd[p] \in {"up", "down"} /\ pc[p] = "begin" =>
               CallCtx(p) = UnitCtx(Candidate(p), Background)
        /\ InUnitStep(p) =>
               /\ Len(CallCtx(p)) >= 1
               /\ CallCtx(p)[Len(CallCtx(p))].d = 1
               /\ DerivedFrom(CallCtx(p), UnitCtx(Candidate(p), Background))
                      <=> Candidate(p).UpDown.nil
               /\ ~Candidate(p).UpDown.nil => Len(CallCtx(p)) = 1

-----------------------------------------------------------------------------
(* C31 *)

\* The guard read that is call k of p refused its candidate.
GuardRefused(p, k) ==
    IF cmd[p] = "up"
    THEN calls[p][k].version <= calls[p][k].val
    ELSE calls[p][k].version > calls[p][k].val

\* C31: with one process and nobody else changing the table, the guard
\* never refuses a candidate the command selected, whatever the table
\* held at the start: in up every candidate's version is greater than the
\* version its guard read, in down the candidate's version is <= the
\* version its guard read, and no command returns a guard conflict.
C31_GuardNeverRefuses ==
    /\ \A k \in GuardReads(1) : ~GuardRefused(1, k)
    /\ \A i \in 1..Len(err[1]) :
           err[1][i] \notin {errDBVersionChangedUp, errDBVersionChangedDown}
    /\ pc[1] = "action" =>
           IF cmd[1] = "up"
           THEN CandidateVersion(1) > selectDBVersion(Visible(1))
           ELSE CandidateVersion(1) <= selectDBVersion(Visible(1))

\* An up on a table that held version 1 passed the guards of its two
\* candidates, 2 and 3.
C31_Witness ==
    /\ RunCmdUpReturned(1)
    /\ dbVersion[1] = 1
    /\ Cardinality(GuardReads(1)) = 2
    /\ \A k \in GuardReads(1) : calls[1][k].version > calls[1][k].val
    /\ err[1] = nil
    /\ ledger = {1, 2, 3}

-----------------------------------------------------------------------------
(* C32 *)

\* The table holds exactly the registry versions up to its highest one.
NoGaps(p) ==
    ledger = {v \in VersionsOf(migrations[p]) : v <= selectDBVersion(ledger)}

\* C32: from an empty table, with one registry and one process, whatever
\* ups, up-ones and downs ran, failed ones included, the table holds
\* exactly the registry versions <= the current version; a status that
\* returned nil marks a version APPLIED exactly when the table has its row.
C32_NoGaps ==
    /\ NoGaps(1)
    /\ (cmd[1] = "status" /\ pc[1] = "done" /\ err[1] = nil) =>
           \A i \in 1..Len(migrations[1]) :
               /\ output[1][i + 1] \in
                      {StatusLine(migrations[1][i], 0),
                       StatusLine(migrations[1][i], MaxVersion)}
               /\ output[1][i + 1] = StatusLine(migrations[1][i], MaxVersion)
                      <=> migrations[1][i].Version \in ledger

\* After ups (and a down that failed or not) the table is {1, 2} under the
\* registry {1, 2, 3}: status marks 3 PENDING and 2, 1 APPLIED.
C32_Witness ==
    /\ cmd[1] = "status" /\ pc[1] = "done" /\ err[1] = nil
    /\ VersionsOf(migrations[1]) = {1, 2, 3}
    /\ ledger = {1, 2}
    /\ output[1][2] = StatusLine(migrations[1][1], 0)
    /\ output[1][3] = StatusLine(migrations[1][2], MaxVersion)
    /\ output[1][4] = StatusLine(migrations[1][3], MaxVersion)

-----------------------------------------------------------------------------
(* C33 *)

\* C33 as stated: whatever the registry and the table, down calls a Down
\* function only for a version whose row is in the table at that moment,
\* and a down that wrote "Rolled back migration version v" has removed the
\* row of v.
C33_AsStated ==
    /\ []((cmd[1] = "down" /\ pc[1] = "action") =>
              CandidateVersion(1) \in Visible(1))
    /\ [][\A v \in Versions :
              (cmd[1] = "down" /\ output'[1] # output[1]
                   /\ output'[1] = <<RolledBackLine(v)>>) =>
                  v \in ledger /\ v \notin ledger']_vars

\* What holds for every table: down calls the Down function of the highest
\* registry version <= the highest version of the table, whether or not
\* that version has a row.
C33_HighestNotAbove ==
    (cmd[1] = "down" /\ pc[1] = "action") =>
        /\ CandidateVersion(1) <= selectDBVersion(Visible(1))
        /\ \A v \in VersionsOf(migrations[1]) :
               v <= selectDBVersion(Visible(1)) => v <= CandidateVersion(1)

-----------------------------------------------------------------------------
(* C34 *)

\* This step makes the Up effect of version v durable: Up returned nil on
\* the database itself, or the transaction that made the effect commits.
UpTakesDurableEffect(v) ==
    /\ cmd[1] = "up"
    /\ pc[1] \in {"action", "commit"}
    /\ CandidateVersion(1) = v
    /\ Len(calls'[1]) = Len(calls[1]) + 1
    /\ Last(calls'[1]).ok
    /\ \/ Last(calls'[1]).op = "up" /\ ~tx[1].open
       \/ Last(calls'[1]).op = "Commit" /\ v \in tx[1].made

\* C34 as stated: over any sequence of ups and downs of one process,
\* failed ones included, the Up effect of a version is never made durable
\* while it is present already (made by an earlier up and not undone by a
\* down since), with or without a transaction.
C34_AsStated ==
    [][\A v \in Versions : UpTakesDurableEffect(v) => v \notin schema]_vars

\* C34: the Up effect of a version run in a transaction is never made
\* durable while it is present already.  The Up effect of a version run
\* without a transaction is made durable a second time exactly in the
\* state a failed unit without a transaction leaves: the effect is there
\* and the table has no row of the version; only versions run without a
\* transaction are ever in that state.
C34_UpOnceInTx ==
    /\ [](\A v \in schema \ ledger : ~IsTx(1, v))
    /\ [][\A v \in Versions :
              UpTakesDurableEffect(v) =>
                  \/ v \notin schema
                  \/ ~IsTx(1, v) /\ v \notin ledger]_vars

\* An up run again after a unit of version 2 without a transaction had
\* failed: the Up effect of version 2 is there, the table has no row of it,
\* the guard has let version 2 pass and Up is the next call.
C34_Witness ==
    /\ cmd[1] = "up" /\ pc[1] = "action"
    /\ CandidateVersion(1) = 2
    /\ ~IsTx(1, 2)
    /\ 2 \in schema /\ 2 \notin ledger
    /\ ledger = {1}

-----------------------------------------------------------------------------
(* C35 *)

\* Every migration of the registry runs in a transaction.
TxOnly == \A i \in 1..Len(migrations[1]) : ~migrations[1][i].UpDown.nil

\* In this step p makes the call op, and it returns ok.
Makes(p, op, ok) ==
    /\ Len(calls'[p]) = Len(calls[p]) + 1
    /\ Last(calls'[p]).op = op
    /\ Last(calls'[p]).ok = ok

\* p is inside the unit of version v while the row of v, committed by the
\* other process, is in the table: p lost the race on v.
LostRace(p, v) ==
    /\ cmd[p] = "up"
    /\ pc[p] \in {"guard", "action", "mutate", "commit", "rollback"}
    /\ CandidateVersion(p) = v
    /\ v \in ledger

\* C35: two processes run up at the same time with a registry of
\* transactional migrations.  A row is committed only for a version that
\* has no row, and an Up effect only for a version whose effect is not
\* there, so no version is applied twice.  The process that lost the race
\* on a version never reaches Commit: its guard refuses or its insert is
\* rejected, its transaction is rolled back leaving table and schema as
\* they are, and its run returns the error without trying a later version.
C35_OneWinner ==
    /\ [](TxOnly =>
            /\ schema = ledger
            /\ \A p \in Procs, v \in Versions :
                   LostRace(p, v) =>
                       /\ pc[p] # "commit"
                       /\ v \notin tx[p].rows)
    /\ [][TxOnly =>
            \A p \in Procs :
                /\ Makes(p, "Commit", TRUE) =>
                       /\ tx[p].rows = {CandidateVersion(p)}
                       /\ tx[p].made = {CandidateVersion(p)}
                       /\ CandidateVersion(p) \notin ledger
                       /\ CandidateVersion(p) \notin schema
                       /\ ledger' = ledger \cup {CandidateVersion(p)}
                /\ (pc[p] = "guard" /\ LostRace(p, CandidateVersion(p))
                        /\ pc'[p] # pc[p]) =>
                       /\ pc'[p] = "rollback"
                       /\ Last(calls'[p]).ok =>
                              fnErr'[p] = inTxErr(guardUpErr(CandidateVersion(p),
                                                             Last(calls'[p]).val))
                /\ (pc[p] = "mutate" /\ LostRace(p, CandidateVersion(p))
                        /\ pc'[p] # pc[p]) =>
                       /\ Makes(p, "insert", FALSE)
                       /\ pc'[p] = "rollback"
                /\ (pc[p] = "rollback" /\ pc'[p] # pc[p]) =>
                       /\ pc'[p] = "done"
                       /\ err'[p] = executeInTxErr(fnErr[p])
                       /\ ledger' = ledger /\ schema' = schema
                       /\ tx'[p] = NoTx]_vars

\* Both processes passed the guard of version 1 and called Up; process 1
\* committed version 1; the insert of process 2 was rejected and its
\* transaction rolled back, and its up returned the insert's error.
C35_Witness ==
    /\ TxOnly
    /\ ledger = {1} /\ schema = {1}
    /\ RunCmdUpReturned(2)
    /\ Len(calls[2]) = 6
    /\ IsCall(calls[2][3], "getDBVersion", 1, TRUE) /\ calls[2][3].val = 0
    /\ IsCall(calls[2][4], "up", 1, TRUE)
    /\ IsCall(calls[2][5], "insert", 1, FALSE)
    /\ calls[2][6].op = "Rollback"
    /\ err[2] = <<"execute in TX", "failed to execute in transaction">>
                    \o insertDBVersionErr(1)
    /\ VersionsOf(migrations[2]) = {1, 2}

-----------------------------------------------------------------------------
(* C36 *)

\* What runCmdDown does to a table L when none of its calls fails: the
\* version it selects (0 when none), and the table it leaves.
DownSelects(L) ==
    LET j == NextDown(sortMigrationsDesc(migrations[1]), selectDBVersion(L)) IN
    IF j = 0 THEN 0 ELSE sortMigrationsDesc(migrations[1])[j].Version

DownLeaves(L, v) ==
    IF v = 0 \/ GuardDownRefuses(v, selectDBVersion(L)) THEN L ELSE L \ {v}

\* In this step the command of process 1 completes the unit of version v
\* and writes `line`.
Completes(v, line) ==
    /\ pc[1] \in {"mutate", "commit"}
    /\ CandidateVersion(1) = v
    /\ Len(output'[1]) > Len(output[1])
    /\ output'[1][Len(output[1]) + 1] = line

\* C36: when up-one has applied version v to a table L, the table is
\* L with the row of v added, and the down that follows selects v, passes
\* its guard and leaves L: every down that succeeds removes exactly the row
\* of the version DownSelects gives for the table it found; the table
\* does not change between two commands, nor inside an up-one or a down
\* before the step that completes its unit.
C36_UpOneThenDown ==
    /\ [][\A v \in Versions :
              (cmd[1] = "up" /\ limit[1] = 1 /\ Completes(v, AppliedLine(v))) =>
                  /\ v \notin ledger
                  /\ ledger' = ledger \cup {v}
                  /\ pc'[1] = "done" /\ err'[1] = nil
                  /\ DownSelects(ledger') = v
                  /\ DownLeaves(ledger', DownSelects(ledger')) = ledger]_vars
    /\ [][\A v \in Versions :
              (cmd[1] = "down" /\ Completes(v, RolledBackLine(v))) =>
                  /\ calls[1][1].val = selectDBVersion(ledger)
                  /\ v = DownSelects(ledger)
                  /\ ledger' = DownLeaves(ledger, v)
                  /\ ledger' = ledger \ {v}]_vars
    /\ [][(pc[1] \in {"done", "idle"} => ledger' = ledger)
              /\ ((ledger' # ledger /\ (cmd[1] = "down" \/ limit[1] = 1)) =>
                      Len(output'[1]) > Len(output[1]))]_vars

\* An up-one has applied version 3 (registry {1, 3}) to a table that held
\* {2}: the down that follows selects 3 and leaves {2}.
C36_Witness ==
    /\ RunCmdUpReturned(1) /\ limit[1] = 1 /\ err[1] = nil
    /\ output[1] = <<AppliedLine(3), SummaryLine(1)>>
    /\ VersionsOf(migrations[1]) = {1, 3}
    /\ ledger = {2, 3}
    /\ DownSelects(ledger) = 3
    /\ DownLeaves(ledger, 3) = {2}

-----------------------------------------------------------------------------
(* C37 *)

\* The versions the command of p has dispatched to an executor.
Dispatched(p) ==
    ({calls[p][k].version : k \in 1..Len(calls[p])} \ {0})
        \cup (IF pc[p] \in {"begin", "guard"} THEN {CandidateVersion(p)} ELSE {})

Running(p) == cmd[p] \in {"up", "down"} /\ pc[p] \notin {"idle", "done"}

\* C37: when every call returns, every up and every down returns, with
\* nil or with the first error; up has dispatched at most one unit per
\* registry entry (and at most `limit` when a limit is given), each entry
\* at most once, and down at most one unit.
C37_Terminates ==
    /\ [](/\ cmd[1] = "up" =>
                /\ Cardinality(Dispatched(1)) <= Len(migrations[1])
                /\ Cardinality(CallsOf(1, "getDBVersion", 0)) = 1
                /\ \A v \in Versions :
                       Cardinality(CallsOf(1, "getDBVersion", v)) <= 1
                /\ limit[1] > 0 => Cardinality(Dispatched(1)) <= limit[1]
          /\ cmd[1] = "down" => Cardinality(Dispatched(1)) <= 1
          /\ Dispatched(1) \subseteq VersionsOf(migrations[1]))
    /\ Running(1) ~> (pc[1] = "done" /\ ~Running(1))

\* An up has dispatched one unit for each of the three entries of its
\* registry and returned nil.
C37_Witness ==
    /\ RunCmdUpReturned(1) /\ err[1] = nil /\ limit[1] = 0
    /\ Len(migrations[1]) = 3
    /\ Dispatched(1) = {1, 2, 3}
    /\ nbAppliedMigrations[1] = 3

====
